---- MODULE Spec2Model ----
(***************************************************************************)
(* jsonAnalyser: the visual query builder (js/queryBuilder.js), the query  *)
(* engine (js/queryEngine.js), the document model (js/jsonParser.js) and   *)
(* the application handlers that connect them (app module).                *)
(*                                                                         *)
(* Text is modelled as a sequence of chunks.  Text the user types or that  *)
(* comes from a document key is a sequence of one-character strings; the   *)
(* constant pieces of the generator's templates are chunks of their own.   *)
(* Str(t) is the plain string a text stands for.                           *)
(***************************************************************************)
EXTENDS Integers, Sequences, FiniteSets, TLC

VARIABLES
    jsonInput,       \* DOM: value of the #jsonInput textarea
    currentJSON,     \* JSONParser.currentJSON
    jsonError,       \* DOM: text of #jsonError
    fileReads,       \* the files whose file.text() promise is pending
    config,          \* QueryBuilder.config
    fieldRows,       \* DOM: the .field-row elements, in document order
    filterRows,      \* DOM: the .filter-row elements, in document order
    sortFieldSelect, \* DOM: the #sortField select (its options and value)
    queryPreview,    \* DOM: text of #queryPreview
    queryInput,      \* DOM: value of #queryInput
    currentQuery,    \* QueryEngine.currentQuery
    queryResults,    \* QueryEngine.queryResults
    queryError,      \* DOM: text of #queryError
    resultsContainer, \* DOM: what displayResults wrote into #resultsContainer
    currentResults,  \* App.currentResults
    jsonTimer,       \* due times of the pending timers of the #jsonInput listener
    queryTimer,      \* due times of the pending timers of the #queryInput listener
    now,             \* the clock, in milliseconds since the page was opened
    location,        \* window.location.search: the raw value of its q parameter
    urlTimer,        \* due times of the pending timers of loadQueryFromURL
    clipboard,       \* the text last written to the clipboard
    download,        \* the file last handed to the browser for download
    queryHistory,    \* localStorage: the list under QUERY_HISTORY_KEY
    savedQueries,    \* localStorage: the list under SAVED_QUERIES_KEY
    storageFails     \* localStorage.setItem throws (quota exceeded, storage disabled)

vars == <<jsonInput, currentJSON, jsonError, fileReads, config, fieldRows,
          filterRows,
          sortFieldSelect, queryPreview, queryInput, currentQuery,
          queryResults, queryError, resultsContainer, currentResults,
          jsonTimer, queryTimer,
          now, location, urlTimer, clipboard, download, queryHistory,
          savedQueries, storageFails>>

docVars     == <<jsonInput, currentJSON, jsonError, fileReads>>
builderVars == <<config, fieldRows, filterRows, sortFieldSelect, queryPreview>>
engineVars  == <<queryInput, currentQuery, queryResults, queryError,
                 resultsContainer>>
appVars     == <<currentResults, jsonTimer, queryTimer>>
pageVars    == <<now, location, urlTimer, clipboard, download>>
storeVars   == <<queryHistory, savedQueries, storageFails>>

----------------------------------------------------------------------------
(* Bounds of the model *)

\* rows the two row containers hold together
MaxRows == 2

----------------------------------------------------------------------------
(* Text *)

RECURSIVE Str(_)
Str(t) == IF t = <<>> THEN "" ELSE Head(t) \o Str(Tail(t))

Range(s) == { s[i] : i \in 1..Len(s) }

RECURSIVE Concat(_)
\* the concatenation of a sequence of texts
Concat(ts) == IF ts = <<>> THEN <<>> ELSE Head(ts) \o Concat(Tail(ts))

RECURSIVE Join(_, _)
\* Array.prototype.join: the texts of ts with sep between neighbours
Join(ts, sep) ==
    IF ts = <<>> THEN <<>>
    ELSE IF Len(ts) = 1 THEN ts[1]
    ELSE ts[1] \o sep \o Join(Tail(ts), sep)

Digits == {"0", "1", "2", "3", "4", "5", "6", "7", "8", "9"}

Letters == {"a", "b", "c", "d", "e", "f", "g", "h", "i", "j", "k", "l", "m",
            "n", "o", "p", "q", "r", "s", "t", "u", "v", "w", "x", "y", "z",
            "A", "B", "C", "D", "E", "F", "G", "H", "I", "J", "K", "L", "M",
            "N", "O", "P", "Q", "R", "S", "T", "U", "V", "W", "X", "Y", "Z",
            "_"}

WhiteSpace == {" "}

\* the back-tick character (U+0060), which a string of this module cannot
\* hold: the chunk "#" stands for it wherever a text contains one
BackTick == "#"

Quote == "'"

\* the characters of the model in UTF-16 code unit order
CodeOrder == <<" ", "'", ".", "0", "1", "2", "3", "4", "5", "6", "7", "8", "9",
               "A", "B", "C", "D", "E", "F", "G", "H", "I", "J", "K", "L", "M",
               "N", "O", "P", "Q", "R", "S", "T", "U", "V", "W", "X", "Y", "Z",
               "_", BackTick,
               "a", "b", "c", "d", "e", "f", "g", "h", "i", "j", "k", "l", "m",
               "n", "o", "p", "q", "r", "s", "t", "u", "v", "w", "x", "y", "z">>

CodeUnit(c) == CHOOSE i \in 1..Len(CodeOrder) : CodeOrder[i] = c

RECURSIVE TextLess(_, _)
\* s sorts before t under the default comparison of Array.prototype.sort
TextLess(s, t) ==
    IF t = <<>> THEN FALSE
    ELSE IF s = <<>> THEN TRUE
    ELSE IF Head(s) = Head(t) THEN TextLess(Tail(s), Tail(t))
    ELSE CodeUnit(Head(s)) < CodeUnit(Head(t))

RECURSIVE SortTexts(_)
\* the texts of a finite set in ascending order
SortTexts(S) ==
    IF S = {} THEN <<>>
    ELSE LET m == CHOOSE x \in S : \A y \in S \ {x} : TextLess(x, y)
         IN  <<m>> \o SortTexts(S \ {m})

DecimalDigit(d) == <<"0", "1", "2", "3", "4", "5", "6", "7", "8", "9">>[d + 1]

RECURSIVE DecimalText(_)
\* the decimal digits of a natural number
DecimalText(n) ==
    IF n < 10 THEN <<DecimalDigit(n)>>
    ELSE DecimalText(n \div 10) \o <<DecimalDigit(n % 10)>>

----------------------------------------------------------------------------
(* JSON values and the document model *)

JNull      == [t |-> "null"]
JBool(b)   == [t |-> "boolean", v |-> b]
JNum(n)    == [t |-> "number", v |-> n]
JStr(s)    == [t |-> "string", v |-> s]
JArr(s)    == [t |-> "array", v |-> s]
\* an object is the sequence of its members [k |-> key, v |-> value] in
\* insertion order
JObj(ms)   == [t |-> "object", v |-> ms]

\* !v of JavaScript
Falsy(v) ==
    \/ v.t = "null"
    \/ v.t = "boolean" /\ ~v.v
    \/ v.t = "number" /\ v.v = 0
    \/ v.t = "string" /\ v.v = <<>>

RECURSIVE stringify(_, _)
\* JSON.stringify(v, null, 2) with the lines of v indented by indent; the
\* keys and strings of the model hold no character that needs an escape
stringify(v, indent) ==
    LET inner == indent \o <<" ", " ">>
    IN  CASE v.t = "null"    -> <<"null">>
          [] v.t = "boolean" -> IF v.v THEN <<"true">> ELSE <<"false">>
          [] v.t = "number"  -> DecimalText(v.v)
          [] v.t = "string"  -> <<"\"">> \o v.v \o <<"\"">>
          [] v.t = "array"   ->
                IF v.v = <<>> THEN <<"[]">>
                ELSE <<"[", "\n">>
                     \o Join([i \in 1..Len(v.v) |->
                                 inner \o stringify(v.v[i], inner)],
                             <<",", "\n">>)
                     \o <<"\n">> \o indent \o <<"]">>
          [] v.t = "object"  ->
                IF v.v = <<>> THEN <<"{}">>
                ELSE <<"{", "\n">>
                     \o Join([i \in 1..Len(v.v) |->
                                 inner \o <<"\"">> \o v.v[i].k \o <<"\"", ":", " ">>
                                 \o stringify(v.v[i].v, inner)],
                             <<",", "\n">>)
                     \o <<"\n">> \o indent \o <<"}">>
          [] OTHER           -> <<v.v>>

\* formatJSON(obj, 2)
formatJSON(obj) == stringify(obj, <<>>)

TextArrayDoc  == "[{\"a\":1,\"b\":2},{\"a\":2,\"b\":1}]"
TextObjectDoc == "{\"a\":1}"
TextNumberDoc == "5"
TextZeroDoc   == "0"
TextMalformed == "{"
TextNullDoc   == "null"
TextFalseDoc  == "false"
TextEmptyStringDoc == "\"\""
TextNestedDoc == "{\"a\":{\"b\":{\"c\":{\"d\":1}}}}"

Record(a, b) == JObj(<< [k |-> <<"a">>, v |-> JNum(a)],
                        [k |-> <<"b">>, v |-> JNum(b)] >>)

\* the document {"a": {"b": {"c": {"d": 1}}}}
NestedDocument ==
    JObj(<<[k |-> <<"a">>, v |->
        JObj(<<[k |-> <<"b">>, v |->
            JObj(<<[k |-> <<"c">>, v |->
                JObj(<<[k |-> <<"d">>, v |-> JNum(1)]>>)]>>)]>>)]>>)

\* the documents the JSON texts of the model stand for
Documents ==
    { JArr(<<Record(1, 2), Record(2, 1)>>),
      JObj(<< [k |-> <<"a">>, v |-> JNum(1)] >>),
      JNum(5), JNum(0), JNull, JBool(FALSE), JStr(<<>>), NestedDocument }

\* the texts formatJSON writes for them
FormattedTexts == { Str(formatJSON(d)) : d \in Documents }

\* JSON.parse on the JSON texts of the model and on their formatted texts,
\* as validateJSON wraps it
validateJSON(str) ==
    CASE str = TextArrayDoc ->
            [valid |-> TRUE, data |-> JArr(<<Record(1, 2), Record(2, 1)>>),
             error |-> ""]
      [] str = TextObjectDoc ->
            [valid |-> TRUE,
             data |-> JObj(<< [k |-> <<"a">>, v |-> JNum(1)] >>), error |-> ""]
      [] str = TextNumberDoc ->
            [valid |-> TRUE, data |-> JNum(5), error |-> ""]
      [] str = TextZeroDoc ->
            [valid |-> TRUE, data |-> JNum(0), error |-> ""]
      [] str = TextNullDoc ->
            [valid |-> TRUE, data |-> JNull, error |-> ""]
      [] str = TextFalseDoc ->
            [valid |-> TRUE, data |-> JBool(FALSE), error |-> ""]
      [] str = TextEmptyStringDoc ->
            [valid |-> TRUE, data |-> JStr(<<>>), error |-> ""]
      [] str = TextNestedDoc ->
            [valid |-> TRUE, data |-> NestedDocument, error |-> ""]
      [] str \in FormattedTexts ->
            [valid |-> TRUE,
             data |-> CHOOSE d \in Documents : Str(formatJSON(d)) = str,
             error |-> ""]
      [] OTHER ->
            [valid |-> FALSE, data |-> JNull,
             error |-> "Unexpected end of JSON input"]

\* !input || input.trim() === ''
IsBlank(str) == str \in {"", " "}

\* parse that keeps the loaded document when the text is malformed
parseKeepingDocument(input) ==
    IF IsBlank(input) THEN [currentJSON |-> JNull, error |-> "", ok |-> FALSE]
    ELSE LET result == validateJSON(input)
         IN  IF result.valid
             THEN [currentJSON |-> result.data, error |-> "", ok |-> TRUE]
             ELSE [currentJSON |-> currentJSON, error |-> result.error,
                   ok |-> FALSE]

\* JSONParser.parse: the document and the error text it leaves
parse(input) ==
    IF IsBlank(input) THEN [currentJSON |-> JNull, error |-> "", ok |-> FALSE]
    ELSE LET result == validateJSON(input)
         IN  IF result.valid
             THEN [currentJSON |-> result.data, error |-> "", ok |-> TRUE]
             ELSE [currentJSON |-> JNull, error |-> result.error, ok |-> FALSE]

RECURSIVE extractFields(_, _)
extractFields(obj, prefix) ==
    IF obj.t = "array" /\ Len(obj.v) > 0
    THEN extractFields(obj.v[1], prefix)
    ELSE IF obj.t \in {"object", "array"}
    THEN UNION { LET key       == obj.v[i].k
                     fieldPath == IF prefix # <<>>
                                  THEN prefix \o <<".">> \o key
                                  ELSE key
                 IN  {fieldPath} \cup
                     (IF "." \notin Range(prefix)
                      THEN extractFields(obj.v[i].v, fieldPath)
                      ELSE {})
               : i \in 1..Len(obj.v) }
    ELSE {}

\* QueryBuilder.getAvailableFields on the current document
getAvailableFields ==
    IF Falsy(currentJSON) THEN <<>>
    ELSE SortTexts(extractFields(currentJSON, <<>>))

----------------------------------------------------------------------------
(* The query generator *)

\* QueryBuilder.operators
operators == <<
    [value |-> "==",          label |-> "equals",           type |-> "all"],
    [value |-> "!=",          label |-> "not equals",       type |-> "all"],
    [value |-> ">",           label |-> "greater than",     type |-> "number"],
    [value |-> ">=",          label |-> "greater or equal", type |-> "number"],
    [value |-> "<",           label |-> "less than",        type |-> "number"],
    [value |-> "<=",          label |-> "less or equal",    type |-> "number"],
    [value |-> "contains",    label |-> "contains",         type |-> "string"],
    [value |-> "starts_with", label |-> "starts with",      type |-> "string"],
    [value |-> "ends_with",   label |-> "ends with",        type |-> "string"] >>

OperatorValues == { operators[i].value : i \in 1..Len(operators) }

Operations == {"select", "filter", "count", "sort", "complex"}

DefaultConfig ==
    [operation |-> "select", selectedFields |-> <<>>, filters |-> <<>>,
     sortField |-> <<>>, sortDirection |-> "asc"]

AllIn(t, S) == \A i \in 1..Len(t) : t[i] \in S

RECURSIVE TrimStart(_)
TrimStart(t) ==
    IF t # <<>> /\ Head(t) \in WhiteSpace THEN TrimStart(Tail(t)) ELSE t

RECURSIVE TrimEnd(_)
TrimEnd(t) ==
    IF t # <<>> /\ t[Len(t)] \in WhiteSpace
    THEN TrimEnd(SubSeq(t, 1, Len(t) - 1))
    ELSE t

Trim(t) == TrimEnd(TrimStart(t))

\* the index of the first chunk of t that is in S, or 0
FirstIn(t, S) ==
    IF \E i \in 1..Len(t) : t[i] \in S
    THEN CHOOSE i \in 1..Len(t) : t[i] \in S /\ \A j \in 1..(i - 1) : t[j] \notin S
    ELSE 0

IsDigits(t) == t # <<>> /\ AllIn(t, Digits)

\* DecimalDigits . DecimalDigits(opt) | . DecimalDigits | DecimalDigits
IsMantissa(m) ==
    LET dot == FirstIn(m, {"."})
    IN  IF dot = 0 THEN IsDigits(m)
        ELSE LET int  == SubSeq(m, 1, dot - 1)
                 frac == SubSeq(m, dot + 1, Len(m))
             IN  /\ AllIn(int, Digits)
                 /\ AllIn(frac, Digits)
                 /\ int # <<>> \/ frac # <<>>

IsExponent(x) ==
    IF x # <<>> /\ Head(x) \in {"+", "-"} THEN IsDigits(Tail(x)) ELSE IsDigits(x)

\* StrUnsignedDecimalLiteral of the ECMAScript string-to-number grammar
IsUnsignedDecimal(u) ==
    \/ u = <<"I", "n", "f", "i", "n", "i", "t", "y">>
    \/ LET e == FirstIn(u, {"e", "E"})
       IN  IF e = 0 THEN IsMantissa(u)
           ELSE /\ IsMantissa(SubSeq(u, 1, e - 1))
                /\ IsExponent(SubSeq(u, e + 1, Len(u)))

IsStrDecimal(u) ==
    IF u # <<>> /\ Head(u) \in {"+", "-"}
    THEN IsUnsignedDecimal(Tail(u))
    ELSE IsUnsignedDecimal(u)

\* 0x, 0o and 0b integer literals
IsRadixLiteral(u) ==
    /\ Len(u) > 2
    /\ u[1] = "0"
    /\ LET body == SubSeq(u, 3, Len(u))
       IN  \/ u[2] \in {"x", "X"} /\
              AllIn(body, Digits \cup {"a", "b", "c", "d", "e", "f",
                                       "A", "B", "C", "D", "E", "F"})
           \/ u[2] \in {"o", "O"} /\
              AllIn(body, {"0", "1", "2", "3", "4", "5", "6", "7"})
           \/ u[2] \in {"b", "B"} /\ AllIn(body, {"0", "1"})

\* isNaN(value) for a string value: Number(value) is NaN.  The empty and
\* the white-space-only string convert to 0.
isNaN(value) ==
    LET u == Trim(value)
    IN  ~(u = <<>> \/ IsStrDecimal(u) \/ IsRadixLiteral(u))

\* formatFilterCondition with ends_with written between its operands
formatFilterConditionInfix(filter) ==
    LET field          == filter.field
        operator       == filter.operator
        value          == filter.value
        isNumber       == ~isNaN(value)
        formattedValue == IF isNumber
                          THEN <<BackTick>> \o value \o <<BackTick>>
                          ELSE <<Quote>> \o value \o <<Quote>>
    IN  IF operator = "contains"
        THEN <<"contains", "(">> \o field \o <<",", " ">> \o formattedValue \o <<")">>
        ELSE IF operator = "starts_with"
        THEN <<"starts_with", "(">> \o field \o <<",", " ">> \o formattedValue \o <<")">>
        ELSE field \o <<" ", operator, " ">> \o formattedValue

\* QueryBuilder.formatFilterCondition
formatFilterCondition(filter) ==
    LET field          == filter.field
        operator       == filter.operator
        value          == filter.value
        isNumber       == ~isNaN(value)
        formattedValue == IF isNumber
                          THEN <<BackTick>> \o value \o <<BackTick>>
                          ELSE <<Quote>> \o value \o <<Quote>>
    IN  IF operator = "contains"
        THEN <<"contains", "(">> \o field \o <<",", " ">> \o formattedValue \o <<")">>
        ELSE IF operator = "starts_with"
        THEN <<"starts_with", "(">> \o field \o <<",", " ">> \o formattedValue \o <<")">>
        ELSE IF operator = "ends_with"
        THEN <<"ends_with", "(">> \o field \o <<",", " ">> \o formattedValue \o <<")">>
        ELSE field \o <<" ", operator, " ">> \o formattedValue

\* the map(...) of the generators over a sequence
Map(Op(_), xs) == [i \in 1..Len(xs) |-> Op(xs[i])]

\* the entry written as field: alias
ProjectionEntrySwapped(f) == f.field \o <<":", " ">> \o f.alias

ProjectionEntry(f) == f.alias \o <<":", " ">> \o f.field

\* generateSelectQuery that also narrows by the filters when there are any
generateSelectQueryFiltered(c) ==
    IF Len(c.selectedFields) = 0 THEN <<"@">>
    ELSE (IF Len(c.filters) > 0
          THEN <<"[?">> \o Join(Map(formatFilterCondition, c.filters),
                                <<" ", "&&", " ">>) \o <<"]">>
          ELSE <<"[*]">>)
         \o <<".", "{">>
         \o Join(Map(ProjectionEntry, c.selectedFields), <<",", " ">>)
         \o <<"}">>

\* QueryBuilder.generateSelectQuery
generateSelectQuery(c) ==
    IF Len(c.selectedFields) = 0 THEN <<"@">>
    ELSE LET projection == Join(Map(ProjectionEntry, c.selectedFields),
                                <<",", " ">>)
         IN  <<"[*]", ".", "{">> \o projection \o <<"}">>

\* generateFilterQuery that yields the full-sequence marker for no filters
generateFilterQueryAll(c) ==
    IF Len(c.filters) = 0 THEN <<"[*]">>
    ELSE <<"[?">> \o Join(Map(formatFilterCondition, c.filters),
                          <<" ", "&&", " ">>) \o <<"]">>

\* generateFilterQuery that joins the conditions with ||
generateFilterQueryOr(c) ==
    IF Len(c.filters) = 0 THEN <<"@">>
    ELSE <<"[?">> \o Join(Map(formatFilterCondition, c.filters),
                          <<" ", "||", " ">>) \o <<"]">>

\* QueryBuilder.generateFilterQuery
generateFilterQuery(c) ==
    IF Len(c.filters) = 0 THEN <<"@">>
    ELSE LET conditions == Join(Map(formatFilterCondition, c.filters),
                                <<" ", "&&", " ">>)
         IN  <<"[?">> \o conditions \o <<"]">>

\* generateCountQuery that never looks at the filters
generateCountQueryAll(c) == <<"length", "(", "@", ")">>

\* QueryBuilder.generateCountQuery
generateCountQuery(c) ==
    IF Len(c.filters) = 0 THEN <<"length", "(", "@", ")">>
    ELSE LET filterQuery == generateFilterQuery(c)
         IN  <<"length", "(">> \o filterQuery \o <<")">>

\* generateSortQuery that reads the sort field from the #sortField select
\* instead of the configuration
generateSortQueryFromSelect(c) ==
    IF sortFieldSelect.value = <<>> THEN <<"@">>
    ELSE LET sortQuery == <<"sort_by", "(", "@", ",", " ", "&">>
                          \o sortFieldSelect.value \o <<")">>
         IN  IF c.sortDirection = "desc"
             THEN <<"reverse", "(">> \o sortQuery \o <<")">>
             ELSE sortQuery

\* generateSortQuery that reverses inside sort_by
generateSortQueryReversedInside(c) ==
    IF c.sortField = <<>> THEN <<"@">>
    ELSE IF c.sortDirection = "desc"
    THEN <<"sort_by", "(", "reverse", "(", "@", ")", ",", " ", "&">>
         \o c.sortField \o <<")">>
    ELSE <<"sort_by", "(", "@", ",", " ", "&">> \o c.sortField \o <<")">>

\* QueryBuilder.generateSortQuery
generateSortQuery(c) ==
    IF c.sortField = <<>> THEN <<"@">>
    ELSE LET sortQuery == <<"sort_by", "(", "@", ",", " ", "&">>
                          \o c.sortField \o <<")">>
         IN  IF c.sortDirection = "desc"
             THEN <<"reverse", "(">> \o sortQuery \o <<")">>
             ELSE sortQuery

\* the complex text with the projection appended after the sort wrapping
generateComplexQuerySortFirst(c) ==
    LET filtered ==
            IF Len(c.filters) > 0
            THEN <<"[?">> \o Join(Map(formatFilterCondition, c.filters),
                                  <<" ", "&&", " ">>) \o <<"]">>
            ELSE <<"[*]">>
        sorted ==
            IF c.sortField # <<>>
            THEN IF c.sortDirection = "desc"
                 THEN <<"reverse", "(", "sort_by", "(">> \o filtered
                      \o <<",", " ", "&">> \o c.sortField \o <<")", ")">>
                 ELSE <<"sort_by", "(">> \o filtered \o <<",", " ", "&">>
                      \o c.sortField \o <<")">>
            ELSE filtered
    IN  IF Len(c.selectedFields) > 0
        THEN sorted \o <<".", "{">>
             \o Join(Map(ProjectionEntry, c.selectedFields), <<",", " ">>)
             \o <<"}">>
        ELSE sorted

\* QueryBuilder.generateComplexQuery
generateComplexQuery(c) ==
    LET filtered ==
            IF Len(c.filters) > 0
            THEN <<"[?">> \o Join(Map(formatFilterCondition, c.filters),
                                  <<" ", "&&", " ">>) \o <<"]">>
            ELSE <<"[*]">>
        projected ==
            IF Len(c.selectedFields) > 0
            THEN filtered \o <<".", "{">>
                 \o Join(Map(ProjectionEntry, c.selectedFields), <<",", " ">>)
                 \o <<"}">>
            ELSE filtered
        sorted ==
            <<"sort_by", "(">> \o projected \o <<",", " ", "&">>
            \o c.sortField \o <<")">>
    IN  IF c.sortField # <<>>
        THEN IF c.sortDirection = "desc"
             THEN <<"reverse", "(">> \o sorted \o <<")">>
             ELSE sorted
        ELSE projected

\* QueryBuilder.generateQuery on the configuration c (this.config): the text
\* it returns and writes to the preview
generateQuery(c) ==
    CASE c.operation = "select"  -> generateSelectQuery(c)
      [] c.operation = "filter"  -> generateFilterQuery(c)
      [] c.operation = "count"   -> generateCountQuery(c)
      [] c.operation = "sort"    -> generateSortQuery(c)
      [] c.operation = "complex" -> generateComplexQuery(c)
      [] OTHER                   -> <<"@">>

----------------------------------------------------------------------------
(* The expression evaluator (the JMESPath library behind window.jmespath)  *)

BackSlash == "\\"

RECURSIVE Lex(_, _, _, _)
\* The tokens of a text.  mode is "expr", "raw" (inside a single-quoted
\* text literal) or "literal" (inside a back-tick literal); word tells
\* whether the last chunk continued an identifier ("id") or a number
\* ("num").  A literal left open at the end of the text is still a token.
Lex(t, mode, word, toks) ==
    IF t = <<>> THEN toks
    ELSE LET c    == Head(t)
             rest == Tail(t)
             close == IF mode = "raw" THEN Quote ELSE BackTick
         IN  IF mode \in {"raw", "literal"}
             THEN IF c = close THEN Lex(rest, "expr", "", toks)
                  ELSE IF /\ c = BackSlash
                          /\ rest # <<>>
                          /\ Head(rest) \in {BackSlash, close}
                       THEN Lex(Tail(rest), mode, "", toks)
                       ELSE Lex(rest, mode, "", toks)
             ELSE IF c = Quote THEN Lex(rest, "raw", "", Append(toks, "RAW"))
             ELSE IF c = BackTick
                  THEN Lex(rest, "literal", "", Append(toks, "LIT"))
             ELSE IF c \in WhiteSpace THEN Lex(rest, "expr", "", toks)
             ELSE IF c \in Letters
                  THEN IF word = "id" THEN Lex(rest, "expr", "id", toks)
                       ELSE Lex(rest, "expr", "id", Append(toks, "ID"))
             ELSE IF c \in Digits
                  THEN IF word # "" THEN Lex(rest, "expr", word, toks)
                       ELSE Lex(rest, "expr", "num", Append(toks, "NUM"))
             ELSE Lex(rest, "expr", "", Append(toks, c))

Tokens(text) == Lex(text, "expr", "", <<>>)

\* the token at position i, "EOF" outside the tokens
Tok(t, i) == IF i \in 1..Len(t) THEN t[i] ELSE "EOF"

Comparators == {"==", "!=", ">", ">=", "<", "<="}

PredicateFunctions == {"contains", "starts_with", "ends_with"}

\* Each P... below recognises one phrase starting at token i and yields the
\* position after it, or 0 if the tokens do not start with the phrase.

RECURSIVE PPath(_, _)
\* identifier ( "." identifier )*
PPath(t, i) ==
    IF Tok(t, i) # "ID" THEN 0
    ELSE IF Tok(t, i + 1) = "." THEN PPath(t, i + 2)
    ELSE i + 1

PLiteral(t, i) == IF Tok(t, i) \in {"RAW", "LIT"} THEN i + 1 ELSE 0

\* path comparator literal | function "(" path "," literal ")"
PCondition(t, i) ==
    IF Tok(t, i) \in PredicateFunctions
    THEN LET p == IF Tok(t, i + 1) = "(" THEN PPath(t, i + 2) ELSE 0
             q == IF p > 0 /\ Tok(t, p) = "," THEN PLiteral(t, p + 1) ELSE 0
         IN  IF q > 0 /\ Tok(t, q) = ")" THEN q + 1 ELSE 0
    ELSE LET p == PPath(t, i)
         IN  IF p > 0 /\ Tok(t, p) \in Comparators THEN PLiteral(t, p + 1) ELSE 0

RECURSIVE PConditions(_, _)
\* condition ( "&&" condition )*
PConditions(t, i) ==
    LET p == PCondition(t, i)
    IN  IF p > 0 /\ Tok(t, p) = "&&" THEN PConditions(t, p + 1) ELSE p

RECURSIVE PEntries(_, _)
\* identifier ":" path ( "," identifier ":" path )*
PEntries(t, i) ==
    LET p == IF Tok(t, i) = "ID" /\ Tok(t, i + 1) = ":" THEN PPath(t, i + 2) ELSE 0
    IN  IF p > 0 /\ Tok(t, p) = "," THEN PEntries(t, p + 1) ELSE p

\* "[*]" | "[?" conditions "]", then an optional "." "{" entries "}"
PSequence(t, i) ==
    LET p == IF Tok(t, i) = "[*]" THEN i + 1
             ELSE IF Tok(t, i) = "[?"
             THEN LET c == PConditions(t, i + 1)
                  IN  IF c > 0 /\ Tok(t, c) = "]" THEN c + 1 ELSE 0
             ELSE 0
    IN  IF p > 0 /\ Tok(t, p) = "." /\ Tok(t, p + 1) = "{"
        THEN LET e == PEntries(t, p + 2)
             IN  IF e > 0 /\ Tok(t, e) = "}" THEN e + 1 ELSE 0
        ELSE p

RECURSIVE PExpression(_, _)
\* "@" | sequence | length(e) | reverse(e) | sort_by(e, &path)
PExpression(t, i) ==
    IF Tok(t, i) = "@" THEN i + 1
    ELSE IF Tok(t, i) \in {"length", "reverse"}
    THEN LET e == IF Tok(t, i + 1) = "(" THEN PExpression(t, i + 2) ELSE 0
         IN  IF e > 0 /\ Tok(t, e) = ")" THEN e + 1 ELSE 0
    ELSE IF Tok(t, i) = "sort_by"
    THEN LET e == IF Tok(t, i + 1) = "(" THEN PExpression(t, i + 2) ELSE 0
             p == IF e > 0 /\ Tok(t, e) = "," /\ Tok(t, e + 1) = "&"
                  THEN PPath(t, e + 2) ELSE 0
         IN  IF p > 0 /\ Tok(t, p) = ")" THEN p + 1 ELSE 0
    ELSE PSequence(t, i)

\* the text is an expression of the grammar the builder writes in: root
\* reference, [*], [?cond], {key: expr}, function calls, comparisons, &&,
\* back-tick and single-quoted literals
ValidExpression(text) ==
    LET t == Tokens(text) IN PExpression(t, 1) = Len(t) + 1

RECURSIVE SplitText(_, _)
\* the texts between the occurrences of the chunk c in t
SplitText(t, c) ==
    IF c \notin Range(t) THEN <<t>>
    ELSE LET i == CHOOSE j \in 1..Len(t) :
                      t[j] = c /\ \A k \in 1..(j - 1) : t[k] # c
         IN  <<SubSeq(t, 1, i - 1)>> \o SplitText(SubSeq(t, i + 1, Len(t)), c)

RECURSIVE FieldValue(_, _)
\* the value of the sub-expression name.name... on a value: a field of
\* anything but an object, and a missing field, is null
FieldValue(value, names) ==
    IF names = <<>> THEN value
    ELSE IF /\ value.t = "object"
            /\ \E i \in 1..Len(value.v) : value.v[i].k = Head(names)
    THEN FieldValue((value.v[CHOOSE i \in 1..Len(value.v) :
                                value.v[i].k = Head(names)]).v, Tail(names))
    ELSE JNull

\* the value of an identifier path on a value
PathValue(value, path) == FieldValue(value, SplitText(path, "."))

RECURSIVE PutMembers(_, _, _)
\* the members ms with the entries added: a key written again keeps its
\* place and takes the later value
PutMembers(ms, entries, value) ==
    IF entries = <<>> THEN ms
    ELSE LET parts == SplitText(Head(entries), ":")
             key   == TrimStart(parts[1])
             val   == PathValue(value, Trim(parts[2]))
             put   == IF \E i \in 1..Len(ms) : ms[i].k = key
                      THEN [i \in 1..Len(ms) |->
                               IF ms[i].k = key THEN [k |-> key, v |-> val]
                               ELSE ms[i]]
                      ELSE Append(ms, [k |-> key, v |-> val])
         IN  PutMembers(put, Tail(entries), value)

\* the multi-select hash {key: path, ...} on a value: null on null
MultiSelectHash(value, hash) ==
    IF value.t = "null" THEN JNull
    ELSE JObj(PutMembers(<<>>, SplitText(hash, ","), value))

\* the projection [*] or [*].{hash} on data: null if data is no array;
\* elements that project to null are dropped
Projection(data, t) ==
    IF data.t # "array" THEN JNull
    ELSE IF Len(t) = 1 THEN JArr(SelectSeq(data.v, LAMBDA e : e.t # "null"))
    ELSE LET hash == SubSeq(t, 4, Len(t) - 1)
             projected == [i \in 1..Len(data.v) |->
                              MultiSelectHash(data.v[i], hash)]
         IN  JArr(SelectSeq(projected, LAMBDA e : e.t # "null"))

\* key k sorts before key l (both numbers or both strings)
KeyLess(k, l) ==
    IF k.t = "number" THEN k.v < l.v ELSE TextLess(k.v, l.v)

RECURSIVE InsertByKey(_, _)
\* the sorted list of [item, key] with x put behind the entries whose key
\* is not greater than its own
InsertByKey(sorted, x) ==
    IF sorted = <<>> THEN <<x>>
    ELSE IF KeyLess(x.key, Head(sorted).key) THEN <<x>> \o sorted
    ELSE <<Head(sorted)>> \o InsertByKey(Tail(sorted), x)

RECURSIVE SortByKey(_, _)
SortByKey(sorted, rest) ==
    IF rest = <<>> THEN sorted
    ELSE SortByKey(InsertByKey(sorted, Head(rest)), Tail(rest))

\* sort_by(list, &path): a stable ascending sort by the key each element
\* has at the path; ok is FALSE where the function raises an invalid-type
\* error (the list is no array, the first key is neither number nor
\* string, or a key is of another type than the first)
SortBy(list, path) ==
    IF list.t # "array" THEN [ok |-> FALSE, value |-> JNull]
    ELSE IF list.v = <<>> THEN [ok |-> TRUE, value |-> list]
    ELSE LET keyed == [i \in 1..Len(list.v) |->
                          [item |-> list.v[i],
                           key |-> PathValue(list.v[i], path)]]
         IN  IF \/ keyed[1].key.t \notin {"number", "string"}
                \/ \E i \in 1..Len(keyed) : keyed[i].key.t # keyed[1].key.t
             THEN [ok |-> FALSE, value |-> JNull]
             ELSE LET sorted == SortByKey(<<>>, keyed)
                  IN  [ok |-> TRUE,
                       value |-> JArr([i \in 1..Len(sorted) |->
                                          sorted[i].item])]

RECURSIVE Evaluate(_, _)
\* the value of an expression without filter or length on data:
\* @, [*], [*].{hash}, sort_by(e, &path) and reverse(e)
Evaluate(data, t) ==
    IF t = <<"@">> THEN [ok |-> TRUE, value |-> data]
    ELSE IF Head(t) = "reverse"
    THEN LET e == Evaluate(data, SubSeq(t, 3, Len(t) - 1))
         IN  IF e.ok /\ e.value.t \in {"array", "string"}
             THEN [ok |-> TRUE,
                   value |-> [e.value EXCEPT !.v =
                                 [i \in 1..Len(e.value.v) |->
                                     e.value.v[Len(e.value.v) + 1 - i]]]]
             ELSE [ok |-> FALSE, value |-> JNull]
    ELSE IF Head(t) = "sort_by"
    THEN LET amp == CHOOSE j \in 1..Len(t) :
                        t[j] = "&" /\ \A k \in (j + 1)..Len(t) : t[k] # "&"
             e == Evaluate(data, SubSeq(t, 3, amp - 3))
         IN  IF e.ok THEN SortBy(e.value, SubSeq(t, amp + 1, Len(t) - 1))
             ELSE e
    ELSE [ok |-> TRUE, value |-> Projection(data, t)]

\* the expressions Evaluate covers
Evaluable(expression) ==
    /\ expression # <<>>
    /\ Head(expression) \in {"reverse", "sort_by", "[*]"}
    /\ "[?" \notin Range(expression)
    /\ "length" \notin Range(expression)

\* jmespath.search(data, expression) on the expressions the builder writes
\* without a filter; ok is FALSE where the library throws.  The result of
\* an expression with a filter is left unevaluated.
search(data, expression) ==
    IF ~ValidExpression(expression)
    THEN [ok |-> FALSE, value |-> JNull, message |-> "ParserError"]
    ELSE CASE Str(expression) = "@" ->
                [ok |-> TRUE, value |-> data, message |-> ""]
           [] Str(expression) = "length(@)" ->
                IF data.t \in {"array", "object", "string"}
                THEN [ok |-> TRUE, value |-> JNum(Len(data.v)), message |-> ""]
                ELSE [ok |-> FALSE, value |-> JNull, message |-> "TypeError"]
           [] Evaluable(expression) ->
                LET e == Evaluate(data, expression)
                IN  [ok |-> e.ok, value |-> e.value,
                     message |-> IF e.ok THEN "" ELSE "TypeError"]
           [] OTHER ->
                [ok |-> TRUE,
                 value |-> [t |-> "unevaluated", v |-> Str(expression)],
                 message |-> ""]

----------------------------------------------------------------------------
(* The result view *)

RECURSIVE stringifyCompact(_)
\* JSON.stringify(v); the keys and strings inside the objects and arrays
\* of the model hold no character that needs an escape
stringifyCompact(v) ==
    CASE v.t = "null"    -> <<"null">>
      [] v.t = "boolean" -> IF v.v THEN <<"true">> ELSE <<"false">>
      [] v.t = "number"  -> DecimalText(v.v)
      [] v.t = "string"  -> <<"\"">> \o v.v \o <<"\"">>
      [] v.t = "array"   ->
            <<"[">> \o Join([i \in 1..Len(v.v) |-> stringifyCompact(v.v[i])],
                            <<",">>) \o <<"]">>
      [] v.t = "object"  ->
            <<"{">> \o Join([i \in 1..Len(v.v) |->
                               <<"\"">> \o v.v[i].k \o <<"\"", ":">>
                               \o stringifyCompact(v.v[i].v)],
                           <<",">>) \o <<"}">>

\* the value of the undefined a missing key reads as
Undefined == [t |-> "undefined"]

\* item[header]
Member(item, header) ==
    IF \E i \in 1..Len(item.v) : item.v[i].k = header
    THEN (item.v[CHOOSE i \in 1..Len(item.v) : item.v[i].k = header]).v
    ELSE Undefined

\* String(value) of a value that is no object
StringOf(value) ==
    CASE value.t = "number"  -> DecimalText(value.v)
      [] value.t = "boolean" -> IF value.v THEN <<"true">> ELSE <<"false">>
      [] value.t = "string"  -> value.v

RECURSIVE AddKeys(_, _)
\* the keys of the members ms added to the list of distinct keys
AddKeys(keys, ms) ==
    IF ms = <<>> THEN keys
    ELSE AddKeys(IF Head(ms).k \in Range(keys) THEN keys
                 ELSE Append(keys, Head(ms).k), Tail(ms))

RECURSIVE AllKeys(_, _)
\* Array.from(allKeys) after the forEach over the items: the keys in the
\* order a Set keeps, that of their first insertion.  The members of an
\* object are in the order Object.keys lists them.
AllKeys(keys, data) ==
    IF data = <<>> THEN keys
    ELSE AllKeys(AddKeys(keys, Head(data).v), Tail(data))

\* typeof item === 'object' && !Array.isArray(item) of an item that is
\* not null
IsMapping(item) == item.t = "object"

\* Array.from(keys) after the forEach over the items of generateTableView:
\* the keys of the mappings in the order of their first insertion
TableKeys(data) ==
    AllKeys(<<>>, SelectSeq(data, IsMapping))

\* the marker a cell shows for null and for a missing key
NullMarker == "<span class=\"null-value\">null</span>"

\* displayValue of one cell
displayValue(value) ==
    IF value.t \in {"null", "undefined"} THEN <<NullMarker>>
    ELSE IF value.t \in {"object", "array"}
    THEN <<"<span class=\"object-value\">">> \o stringifyCompact(value)
         \o <<"</span>">>
    ELSE StringOf(value)

\* no table: what the table view holds where displayResults writes none
NoTable == [message |-> "", columns |-> <<>>, rows |-> <<>>]

\* generateTableView that sorts its columns
generateTableViewSorted(data) ==
    IF data.t # "array" \/ data.v = <<>>
    THEN [message |-> "No data to display in table view",
          columns |-> <<>>, rows |-> <<>>]
    ELSE LET keysArray == SortTexts(Range(TableKeys(data.v)))
             items == SelectSeq(data.v, IsMapping)
         IN  IF keysArray = <<>>
             THEN [message |-> "Data cannot be displayed in table format",
                   columns |-> <<>>, rows |-> <<>>]
             ELSE [message |-> "",
                   columns |-> keysArray,
                   rows |-> [r \in 1..Len(items) |->
                                [c \in 1..Len(keysArray) |->
                                    displayValue(Member(items[r],
                                                        keysArray[c]))]]]

\* QueryEngine.generateTableView: the message it returns in place of a
\* table, or the header cells and the rows of cells of the table
generateTableView(data) ==
    IF data.t # "array" \/ data.v = <<>>
    THEN [message |-> "No data to display in table view",
          columns |-> <<>>, rows |-> <<>>]
    ELSE LET keysArray == TableKeys(data.v)
             items == SelectSeq(data.v, IsMapping)
         IN  IF keysArray = <<>>
             THEN [message |-> "Data cannot be displayed in table format",
                   columns |-> <<>>, rows |-> <<>>]
             ELSE [message |-> "",
                   columns |-> keysArray,
                   rows |-> [r \in 1..Len(items) |->
                                [c \in 1..Len(keysArray) |->
                                    displayValue(Member(items[r],
                                                        keysArray[c]))]]]

\* the badge above the views
Badge(results) ==
    IF results.t = "array"
    THEN DecimalText(Len(results.v))
         \o (IF Len(results.v) # 1 THEN <<" results">> ELSE <<" result">>)
    ELSE <<"Result: ", results.t>>

\* QueryEngine.displayResults: what it writes into #resultsContainer.
\* jsonView is the text of the JSON view, tableTab tells whether the Table
\* tab is there, tableView whether the #tableView element is there, and
\* table is what generateTableView put into it
displayResults(results) ==
    IF results.t = "null"
    THEN [placeholder |-> TRUE, badge |-> <<>>, jsonView |-> <<>>,
          tableTab |-> FALSE, tableView |-> FALSE, table |-> NoTable]
    ELSE LET filled == results.t = "array" /\ results.v # <<>>
         IN  [placeholder |-> FALSE,
              badge |-> Badge(results),
              jsonView |-> formatJSON(results),
              tableTab |-> filled,
              tableView |-> filled,
              table |-> IF filled THEN generateTableView(results)
                        ELSE NoTable]

----------------------------------------------------------------------------
(* The builder's edit events *)

\* the texts typed into an alias box
AliasTexts == { <<>>, <<"A">>, <<"B">> }

\* the texts typed into a filter's value box
ValueTexts == { <<>>, <<"2", "5">>, <<"i", "t", "'", "s">> }

\* the operators picked in a filter row's operator select
OperatorChoices == { "==", "contains" }

\* the texts entered into the JSON input
JsonTexts == { "", TextArrayDoc }

Directions == {"asc", "desc"}

RemoveAt(s, i) == SubSeq(s, 1, i - 1) \o SubSeq(s, i + 1, Len(s))

RECURSIVE CollectFields(_)
\* the forEach of updateFieldSelection over the rows
CollectFields(rows) ==
    IF rows = <<>> THEN <<>>
    ELSE LET row   == Head(rows)
             field == row.field
             alias == row.alias
         IN  (IF field # <<>>
              THEN << [field |-> field,
                       alias |-> IF alias # <<>> THEN alias ELSE field] >>
              ELSE <<>>)
             \o CollectFields(Tail(rows))

RECURSIVE CollectFilters(_)
\* the forEach of updateFilters over the rows
CollectFilters(rows) ==
    IF rows = <<>> THEN <<>>
    ELSE LET row == Head(rows)
         IN  (IF row.field # <<>> /\ row.value # <<>>
              THEN << [field |-> row.field, operator |-> row.operator,
                       value |-> row.value] >>
              ELSE <<>>)
             \o CollectFilters(Tail(rows))

\* updateFieldSelection that pushes an entry for every row
updateFieldSelectionEveryRow(rows) ==
    /\ fieldRows' = rows
    /\ config' = [config EXCEPT !.selectedFields =
                     [i \in 1..Len(rows) |->
                         [field |-> rows[i].field,
                          alias |-> IF rows[i].alias # <<>>
                                    THEN rows[i].alias ELSE rows[i].field]]]
    /\ queryPreview' = generateQuery(config')
    /\ UNCHANGED <<filterRows, sortFieldSelect>>

\* QueryBuilder.updateFieldSelection once the DOM holds the rows
updateFieldSelection(rows) ==
    /\ fieldRows' = rows
    /\ config' = [config EXCEPT !.selectedFields = CollectFields(rows)]
    /\ queryPreview' = generateQuery(config')
    /\ UNCHANGED <<filterRows, sortFieldSelect>>

\* updateFilters that leaves the preview as it is
updateFiltersWithoutPreview(rows) ==
    /\ filterRows' = rows
    /\ config' = [config EXCEPT !.filters = CollectFilters(rows)]
    /\ queryPreview' = queryPreview
    /\ UNCHANGED <<fieldRows, sortFieldSelect>>

\* QueryBuilder.updateFilters once the DOM holds the rows
updateFilters(rows) ==
    /\ filterRows' = rows
    /\ config' = [config EXCEPT !.filters = CollectFilters(rows)]
    /\ queryPreview' = generateQuery(config')
    /\ UNCHANGED <<fieldRows, sortFieldSelect>>

\* the options of a field select built by addFieldSelector or addFilterRow
SelectOptions(row) == {<<>>} \cup Range(row.options)

\* click on #addFieldBtn: QueryBuilder.addFieldSelector
AddFieldSelector ==
    /\ Len(fieldRows) + Len(filterRows) < MaxRows
    /\ fieldRows' = Append(fieldRows, [options |-> getAvailableFields,
                                       field |-> <<>>, alias |-> <<>>])
    /\ UNCHANGED <<config, filterRows, sortFieldSelect, queryPreview>>
    /\ UNCHANGED <<docVars, engineVars, appVars, pageVars, storeVars>>

\* change of a row's .field-select
FieldSelectChange ==
    \E i \in 1..Len(fieldRows) :
      \E f \in SelectOptions(fieldRows[i]) \ {fieldRows[i].field} :
        /\ updateFieldSelection([fieldRows EXCEPT ![i].field = f])
        /\ UNCHANGED <<docVars, engineVars, appVars, pageVars, storeVars>>

\* input in a row's .field-alias
FieldAliasInput ==
    \E i \in 1..Len(fieldRows) :
      \E a \in AliasTexts \ {fieldRows[i].alias} :
        /\ updateFieldSelection([fieldRows EXCEPT ![i].alias = a])
        /\ UNCHANGED <<docVars, engineVars, appVars, pageVars, storeVars>>

\* click on a row's .remove-field-btn
RemoveFieldRow ==
    \E i \in 1..Len(fieldRows) :
        /\ updateFieldSelection(RemoveAt(fieldRows, i))
        /\ UNCHANGED <<docVars, engineVars, appVars, pageVars, storeVars>>

\* click on #addFilterBtn: QueryBuilder.addFilterRow
AddFilterRow ==
    /\ Len(fieldRows) + Len(filterRows) < MaxRows
    /\ filterRows' = Append(filterRows, [options |-> getAvailableFields,
                                         field |-> <<>>,
                                         operator |-> operators[1].value,
                                         value |-> <<>>])
    /\ UNCHANGED <<config, fieldRows, sortFieldSelect, queryPreview>>
    /\ UNCHANGED <<docVars, engineVars, appVars, pageVars, storeVars>>

\* change of a row's .filter-field
FilterFieldChange ==
    \E i \in 1..Len(filterRows) :
      \E f \in SelectOptions(filterRows[i]) \ {filterRows[i].field} :
        /\ updateFilters([filterRows EXCEPT ![i].field = f])
        /\ UNCHANGED <<docVars, engineVars, appVars, pageVars, storeVars>>

\* change of a row's .filter-operator
FilterOperatorChange ==
    \E i \in 1..Len(filterRows) :
      \E op \in (OperatorValues \cap OperatorChoices) \ {filterRows[i].operator} :
        /\ updateFilters([filterRows EXCEPT ![i].operator = op])
        /\ UNCHANGED <<docVars, engineVars, appVars, pageVars, storeVars>>

\* input in a row's .filter-value
FilterValueInput ==
    \E i \in 1..Len(filterRows) :
      \E v \in ValueTexts \ {filterRows[i].value} :
        /\ updateFilters([filterRows EXCEPT ![i].value = v])
        /\ UNCHANGED <<docVars, engineVars, appVars, pageVars, storeVars>>

\* click on a row's .remove-filter-btn
RemoveFilterRow ==
    \E i \in 1..Len(filterRows) :
        /\ updateFilters(RemoveAt(filterRows, i))
        /\ UNCHANGED <<docVars, engineVars, appVars, pageVars, storeVars>>

\* change of #sortField
SortFieldChange ==
    \E f \in SelectOptions(sortFieldSelect) \ {sortFieldSelect.value} :
        /\ sortFieldSelect' = [sortFieldSelect EXCEPT !.value = f]
        /\ config' = [config EXCEPT !.sortField = f]
        /\ queryPreview' = generateQuery(config')
        /\ UNCHANGED <<fieldRows, filterRows>>
        /\ UNCHANGED <<docVars, engineVars, appVars, pageVars, storeVars>>

\* change of #sortDirection (the select shows config.sortDirection: it starts
\* at asc and only this handler and reset change either)
SortDirectionChange ==
    \E d \in Directions \ {config.sortDirection} :
        /\ config' = [config EXCEPT !.sortDirection = d]
        /\ queryPreview' = generateQuery(config')
        /\ UNCHANGED <<fieldRows, filterRows, sortFieldSelect>>
        /\ UNCHANGED <<docVars, engineVars, appVars, pageVars, storeVars>>

\* an operation change that starts the new operation from empty sections
OperationChangeClearing ==
    \E op \in Operations \ {config.operation} :
        /\ config' = [DefaultConfig EXCEPT !.operation = op]
        /\ queryPreview' = generateQuery(config')
        /\ UNCHANGED <<fieldRows, filterRows, sortFieldSelect>>
        /\ UNCHANGED <<docVars, engineVars, appVars, pageVars, storeVars>>

\* change of #builderOperation (the select shows config.operation);
\* updateBuilderUI only shows and hides the sections
OperationChange ==
    \E op \in Operations \ {config.operation} :
        /\ config' = [config EXCEPT !.operation = op]
        /\ queryPreview' = generateQuery(config')
        /\ UNCHANGED <<fieldRows, filterRows, sortFieldSelect>>
        /\ UNCHANGED <<docVars, engineVars, appVars, pageVars, storeVars>>

\* reset that leaves the operation as it is
resetKeepingOperation ==
    /\ config' = [DefaultConfig EXCEPT !.operation = config.operation]
    /\ fieldRows' = <<>>
    /\ filterRows' = <<>>
    /\ sortFieldSelect' = [sortFieldSelect EXCEPT !.value = <<>>]
    /\ queryPreview' = <<"@">>

\* QueryBuilder.reset
reset ==
    /\ config' = DefaultConfig
    /\ fieldRows' = <<>>
    /\ filterRows' = <<>>
    /\ sortFieldSelect' = [sortFieldSelect EXCEPT !.value = <<>>]
    /\ queryPreview' = <<"@">>

\* QueryEngine.clear
clear ==
    /\ queryInput' = <<>>
    /\ currentQuery' = <<>>
    /\ queryResults' = JNull
    /\ queryError' = ""
    /\ resultsContainer' = displayResults(JNull)

\* click on #clearQueryBtn: App.handleClearQuery
HandleClearQuery ==
    /\ clear
    /\ reset
    /\ UNCHANGED <<docVars, appVars, pageVars, storeVars>>

\* QueryBuilder.refresh: populateSortFields, then generateQuery
refresh ==
    /\ sortFieldSelect' = [options |-> getAvailableFields', value |-> <<>>]
    /\ queryPreview' = generateQuery(config)
    /\ UNCHANGED <<config, fieldRows, filterRows>>

\* a change of the JSON input to one of texts, and App.handleJSONInput on it
HandleJSONInput(texts) ==
    \E input \in texts \ {jsonInput} :
        /\ jsonInput' = input
        /\ currentJSON' = parse(input).currentJSON
        /\ jsonError' = parse(input).error
        /\ UNCHANGED fileReads
        /\ refresh
        /\ UNCHANGED <<engineVars, appVars, pageVars, storeVars>>

----------------------------------------------------------------------------
(* The builder under its edit events *)

\* window.location.search without a q parameter
NoParameter == <<>>

\* no file was downloaded
NoFile == [written |-> FALSE, text |-> <<>>]

Init ==
    /\ jsonInput = ""
    /\ currentJSON = JNull
    /\ jsonError = ""
    /\ fileReads = <<>>
    /\ config = DefaultConfig
    /\ fieldRows = <<>>
    /\ filterRows = <<>>
    /\ sortFieldSelect = [options |-> <<>>, value |-> <<>>]
    /\ queryPreview = <<"@">>
    /\ queryInput = <<>>
    /\ currentQuery = <<>>
    /\ queryResults = JNull
    /\ queryError = ""
    /\ resultsContainer = displayResults(JNull)
    /\ currentResults = JNull
    /\ jsonTimer = {}
    /\ queryTimer = {}
    /\ now = 0
    /\ location = NoParameter
    /\ urlTimer = {}
    /\ clipboard = <<>>
    /\ download = NoFile
    /\ queryHistory = <<>>
    /\ savedQueries = <<>>
    /\ storageFails = FALSE

JSONInput == HandleJSONInput(JsonTexts)

Next ==
    \/ AddFieldSelector
    \/ FieldSelectChange
    \/ FieldAliasInput
    \/ RemoveFieldRow
    \/ AddFilterRow
    \/ FilterFieldChange
    \/ FilterOperatorChange
    \/ FilterValueInput
    \/ RemoveFilterRow
    \/ SortFieldChange
    \/ SortDirectionChange
    \/ OperationChange
    \/ HandleClearQuery
    \/ JSONInput

Spec == Init /\ [][Next]_vars

----------------------------------------------------------------------------
(* Applying the generated query *)

\* QueryEngine.executeQuery: what it leaves in the engine and what it returns
executeQuery(query) ==
    LET jsonData == currentJSON
    IN  IF Falsy(jsonData)
        THEN [queryError   |-> "No JSON data loaded. Please enter JSON first.",
              queryResults |-> queryResults,
              currentQuery |-> currentQuery,
              success      |-> FALSE]
        ELSE IF Trim(query) = <<>>
        THEN [queryError   |-> "",
              queryResults |-> queryResults,
              currentQuery |-> <<>>,
              success      |-> FALSE]
        ELSE LET result == search(jsonData, query)
             IN  IF result.ok
                 THEN [queryError   |-> "",
                       queryResults |-> result.value,
                       currentQuery |-> query,
                       success      |-> TRUE]
                 ELSE [queryError   |-> result.message,
                       queryResults |-> JNull,
                       currentQuery |-> query,
                       success      |-> FALSE]

\* what a call of executeQuery with outcome r leaves in the engine and, by
\* its displayResults call (of the result on success, of null otherwise),
\* in the results container
Executes(r) ==
    /\ currentQuery' = r.currentQuery
    /\ queryResults' = r.queryResults
    /\ queryError' = r.queryError
    /\ resultsContainer' = displayResults(IF r.success THEN r.queryResults
                                          ELSE JNull)

\* click on #buildQueryBtn: generateQuery, then applyQueryToEngine
BuildQuery ==
    LET query == generateQuery(config)
    IN  /\ queryPreview' = query
        /\ queryInput' = query
        /\ Executes(executeQuery(query))
        /\ UNCHANGED <<config, fieldRows, filterRows, sortFieldSelect>>
        /\ UNCHANGED <<docVars, appVars, pageVars, storeVars>>

\* the texts entered into the JSON input while queries are applied
ApplyJsonTexts == { "", TextArrayDoc, TextObjectDoc, TextNumberDoc,
                    TextZeroDoc, TextMalformed }

ApplyJSONInput == HandleJSONInput(ApplyJsonTexts)

\* the all-empty configuration under operation changes, document changes,
\* Apply and Clear
NextApply ==
    \/ OperationChange
    \/ ApplyJSONInput
    \/ BuildQuery
    \/ HandleClearQuery

ApplySpec == Init /\ [][NextApply]_vars

----------------------------------------------------------------------------
(* One filter row under every operator and a wider choice of values *)

\* filter rows of the condition-formatting specification
MaxFormatRows == 1

\* the texts typed into the value box of the row: empty, a blank, decimal
\* numbers, a hexadecimal literal, Infinity, words and a quoted word
LiteralTexts ==
    { <<>>, <<" ">>, <<"2", "5">>, <<"-", "1", ".", "5">>, <<"1", "e", "3">>,
      <<"0", "x", "1", "0">>, <<"I", "n", "f", "i", "n", "i", "t", "y">>,
      <<"a", "b", "c">>, <<"2", "5", "a">> }

\* click on #addFilterBtn while the container holds fewer than
\* MaxFormatRows rows: QueryBuilder.addFilterRow
AddFormatRow ==
    /\ Len(filterRows) < MaxFormatRows
    /\ filterRows' = Append(filterRows, [options |-> getAvailableFields,
                                         field |-> <<>>,
                                         operator |-> operators[1].value,
                                         value |-> <<>>])
    /\ UNCHANGED <<config, fieldRows, sortFieldSelect, queryPreview>>
    /\ UNCHANGED <<docVars, engineVars, appVars, pageVars, storeVars>>

\* change of a row's .filter-operator to any of its nine options
FilterOperatorChangeAny ==
    \E i \in 1..Len(filterRows) :
      \E op \in OperatorValues \ {filterRows[i].operator} :
        /\ updateFilters([filterRows EXCEPT ![i].operator = op])
        /\ UNCHANGED <<docVars, engineVars, appVars, pageVars, storeVars>>

\* input in a row's .filter-value of any of LiteralTexts
FilterValueInputAny ==
    \E i \in 1..Len(filterRows) :
      \E v \in LiteralTexts \ {filterRows[i].value} :
        /\ updateFilters([filterRows EXCEPT ![i].value = v])
        /\ UNCHANGED <<docVars, engineVars, appVars, pageVars, storeVars>>

NextFormat ==
    \/ AddFormatRow
    \/ FilterFieldChange
    \/ FilterOperatorChangeAny
    \/ FilterValueInputAny
    \/ RemoveFilterRow
    \/ OperationChange
    \/ JSONInput

FormatSpec == Init /\ [][NextFormat]_vars

----------------------------------------------------------------------------
(* StorageManager: the query history and the saved queries in localStorage *)

\* this.MAX_HISTORY_ITEMS
MAX_HISTORY_ITEMS == 50

\* the ids of the records of a list
Ids(records) == { records[i].id : i \in 1..Len(records) }

\* the n-th id
IdText(n) == <<"i", "d">> \o DecimalText(n)

\* generateId for a record that joins the list `records`: Date.now() and
\* Math.random() give an id no record has; the model takes the first id
\* that no record of the list has
generateId(records) ==
    LET n == CHOOSE n \in 1..(Len(records) + 1) :
                 /\ IdText(n) \notin Ids(records)
                 /\ \A m \in 1..(n - 1) : IdText(m) \in Ids(records)
    IN  IdText(n)

\* addToHistory that does not remove the entry with the same text
addToHistoryKeepingDuplicate(query) ==
    IF query = <<>> \/ Trim(query) = <<>> THEN queryHistory
    ELSE LET history == <<[id |-> generateId(queryHistory), query |-> query,
                           timestamp |-> now]>> \o queryHistory
             limited == IF Len(history) > MAX_HISTORY_ITEMS
                        THEN SubSeq(history, 1, MAX_HISTORY_ITEMS)
                        ELSE history
         IN  IF storageFails THEN queryHistory ELSE limited

\* addToHistory that does not limit the size of the history
addToHistoryUnlimited(query) ==
    IF query = <<>> \/ Trim(query) = <<>> THEN queryHistory
    ELSE LET filtered == SelectSeq(queryHistory,
                                   LAMBDA item : item.query # query)
             history == <<[id |-> generateId(filtered), query |-> query,
                           timestamp |-> now]>> \o filtered
         IN  IF storageFails THEN queryHistory ELSE history

\* StorageManager.addToHistory: the list under QUERY_HISTORY_KEY after the
\* call.  A setItem that throws is caught and leaves the stored list as it
\* was.
addToHistory(query) ==
    IF query = <<>> \/ Trim(query) = <<>> THEN queryHistory
    ELSE LET filtered == SelectSeq(queryHistory,
                                   LAMBDA item : item.query # query)
             history == <<[id |-> generateId(filtered), query |-> query,
                           timestamp |-> now]>> \o filtered
             limited == IF Len(history) > MAX_HISTORY_ITEMS
                        THEN SubSeq(history, 1, MAX_HISTORY_ITEMS)
                        ELSE history
         IN  IF storageFails THEN queryHistory ELSE limited

\* the index of the first record of a list with a name, or 0
findIndex(records, name) ==
    IF \E i \in 1..Len(records) : records[i].name = name
    THEN CHOOSE i \in 1..Len(records) :
             /\ records[i].name = name
             /\ \A j \in 1..(i - 1) : records[j].name # name
    ELSE 0

\* saveQuery that adds a record without looking for the name
saveQueryAlwaysAdding(name, query, description) ==
    IF name = <<>> \/ query = <<>>
    THEN [savedQueries |-> savedQueries, ok |-> FALSE]
    ELSE LET newQuery == [id |-> generateId(savedQueries), name |-> name,
                          query |-> query, description |-> description,
                          createdAt |-> now, updatedAt |-> now]
         IN  IF storageFails
             THEN [savedQueries |-> savedQueries, ok |-> FALSE]
             ELSE [savedQueries |-> <<newQuery>> \o savedQueries,
                   ok |-> TRUE]

\* StorageManager.saveQuery: the list under SAVED_QUERIES_KEY after the call
\* and the value returned.  A setItem that throws is caught: the stored
\* list stays and the call returns false.
saveQuery(name, query, description) ==
    IF name = <<>> \/ query = <<>>
    THEN [savedQueries |-> savedQueries, ok |-> FALSE]
    ELSE LET newQuery == [id |-> generateId(savedQueries), name |-> name,
                          query |-> query, description |-> description,
                          createdAt |-> now, updatedAt |-> now]
             existingIndex == findIndex(savedQueries, name)
             existing == savedQueries[existingIndex]
             list == IF existingIndex >= 1
                     THEN [savedQueries EXCEPT ![existingIndex] =
                             [newQuery EXCEPT !.id = existing.id,
                                              !.createdAt = existing.createdAt]]
                     ELSE <<newQuery>> \o savedQueries
         IN  IF storageFails
             THEN [savedQueries |-> savedQueries, ok |-> FALSE]
             ELSE [savedQueries |-> list, ok |-> TRUE]

\* StorageManager.deleteSavedQuery: the stored list after the call
deleteSavedQuery(id) ==
    IF storageFails THEN savedQueries
    ELSE SelectSeq(savedQueries, LAMBDA q : q.id # id)

RECURSIVE UniqueByName(_, _)
\* the reduce of importSavedQueries: the records of `records` whose name no
\* record of acc and no earlier record has, appended to acc
UniqueByName(acc, records) ==
    IF records = <<>> THEN acc
    ELSE IF findIndex(acc, Head(records).name) = 0
    THEN UniqueByName(Append(acc, Head(records)), Tail(records))
    ELSE UniqueByName(acc, Tail(records))

\* StorageManager.importSavedQueries for the value JSON.parse gives for the
\* file: array is FALSE for text that is no JSON array (the call throws,
\* catches and stores nothing), records is the array
importSavedQueries(imported) ==
    IF ~imported.array \/ storageFails THEN savedQueries
    ELSE UniqueByName(<<>>, imported.records \o savedQueries)

----------------------------------------------------------------------------
(* Typing, the debounce timers, execution and export *)

\* the texts typed into the JSON input
RunJsonTexts == { "", TextArrayDoc, TextZeroDoc, TextFalseDoc,
                  TextEmptyStringDoc, TextMalformed }

\* the texts typed into the query input: empty, a blank, the root
\* reference and an unfinished filter
QueryTexts == { <<>>, <<" ">>, <<"@">>, <<"[", "?">> }

\* this.exampleQueries: "Get all items" and "Count all items"
exampleQueries == << <<"@">>, <<"length", "(", "@", ")">> >>

NoDataMessage == "No JSON data loaded. Please enter JSON first."

\* the wait both input listeners pass to debounce, in milliseconds
DebounceWait == 500

\* debounce without its second clearTimeout: the pending timer stays
debounceWithoutCancel(timeout) == timeout \cup {now + DebounceWait}

\* the function debounce returns, called with the listener's pending timers:
\* clearTimeout(timeout) drops them and setTimeout(later, wait) schedules
\* the call of the handler
debounce(timeout) == {now + DebounceWait}

\* input event on #jsonInput: the value changes and debounce restarts the
\* timer of handleJSONInput
JsonInputTyped ==
    \E input \in RunJsonTexts \ {jsonInput} :
        /\ jsonInput' = input
        /\ jsonTimer' = debounce(jsonTimer)
        /\ UNCHANGED <<currentJSON, jsonError, fileReads, builderVars, engineVars,
                       currentResults, queryTimer, pageVars, storeVars>>

\* the timer of the #jsonInput listener that is due at `due` runs `later`:
\* App.handleJSONInput
JsonTimerFiresAt(due) ==
    /\ due \in jsonTimer
    /\ jsonTimer' = jsonTimer \ {due}
    /\ currentJSON' = parse(jsonInput).currentJSON
    /\ jsonError' = parse(jsonInput).error
    /\ UNCHANGED fileReads
    /\ refresh
    /\ UNCHANGED <<jsonInput, engineVars, currentResults, queryTimer,
                   pageVars, storeVars>>

\* a pending timer of the #jsonInput listener fires (the clock is not
\* observed)
JsonTimerFires == \E due \in jsonTimer : JsonTimerFiresAt(due)

\* click on #clearInputBtn, confirmed: JSONParser.clear
HandleClear ==
    /\ jsonInput' = ""
    /\ currentJSON' = JNull
    /\ jsonError' = ""
    /\ UNCHANGED fileReads
    /\ UNCHANGED <<builderVars, engineVars, appVars, pageVars, storeVars>>

\* input event on #queryInput: the value changes and debounce restarts the
\* timer of handleQueryInput
QueryInputTypedFrom(texts) ==
    \E query \in texts \ {queryInput} :
        /\ queryInput' = query
        /\ queryTimer' = debounce(queryTimer)
        /\ UNCHANGED <<docVars, builderVars, currentQuery, queryResults,
                       queryError, resultsContainer, currentResults,
                       jsonTimer, pageVars, storeVars>>

QueryInputTyped == QueryInputTypedFrom(QueryTexts)

\* the timer of the #queryInput listener that is due at `due` runs `later`:
\* App.handleQueryInput
QueryTimerFiresAt(due) ==
    /\ due \in queryTimer
    /\ queryTimer' = queryTimer \ {due}
    /\ Executes(executeQuery(queryInput))
    /\ UNCHANGED <<queryInput, docVars, builderVars, currentResults, jsonTimer,
                   pageVars, storeVars>>

\* a pending timer of the #queryInput listener fires (the clock is not
\* observed)
HandleQueryInput == \E due \in queryTimer : QueryTimerFiresAt(due)

\* the body of handleExecuteQuery for the outcome r of its executeQuery
\* call: on success App.currentResults takes the engine's result and the
\* text goes to the history
ExecutesAndStores(r) ==
    /\ Executes(r)
    /\ currentResults' = IF r.success THEN r.queryResults ELSE currentResults
    /\ queryHistory' = IF r.success /\ Trim(queryInput) # <<>>
                       THEN addToHistory(queryInput)
                       ELSE queryHistory

\* click on #executeQueryBtn: App.handleExecuteQuery
HandleExecuteQuery ==
    /\ ExecutesAndStores(executeQuery(queryInput))
    /\ UNCHANGED <<queryInput, docVars, builderVars, jsonTimer, queryTimer,
                   pageVars, savedQueries, storageFails>>

\* change of #exampleQuerySelect: QueryEngine.loadExampleQuery
HandleExampleQuery ==
    \E index \in 1..Len(exampleQueries) :
        /\ queryInput' = exampleQueries[index]
        /\ Executes(executeQuery(exampleQueries[index]))
        /\ UNCHANGED <<docVars, builderVars, appVars, pageVars, storeVars>>

NextRun ==
    \/ JsonInputTyped
    \/ JsonTimerFires
    \/ HandleClear
    \/ QueryInputTyped
    \/ HandleQueryInput
    \/ HandleExecuteQuery
    \/ HandleExampleQuery
    \/ BuildQuery
    \/ HandleClearQuery

RunSpec == Init /\ [][NextRun]_vars

----------------------------------------------------------------------------
(* The debounced listeners with the clock observed *)

\* the clock stops at MaxNow milliseconds
MaxNow == 1500

\* the longest time that passes in one step, in milliseconds
TickMs == 250

Min(S) == CHOOSE x \in S : \A y \in S : x <= y

\* the due times of all pending timers
DueTimes == jsonTimer \cup queryTimer \cup urlTimer

\* time passes, up to the next due time: setTimeout runs a callback when
\* its delay has elapsed, so the clock does not pass a pending timer
ElapseTo(limit) ==
    /\ now < limit
    /\ \A due \in DueTimes : now < due
    /\ now' = Min({now + TickMs, limit} \cup DueTimes)
    /\ UNCHANGED <<docVars, builderVars, engineVars, appVars, location,
                   urlTimer, clipboard, download, storeVars>>

Elapse == ElapseTo(MaxNow)

\* the timer of the #jsonInput listener fires when it is due
JsonTimerDue == JsonTimerFiresAt(now)

\* the timer of the #queryInput listener fires when it is due
QueryTimerDue == QueryTimerFiresAt(now)

NextDebounce ==
    \/ JsonInputTyped
    \/ JsonTimerDue
    \/ QueryInputTyped
    \/ QueryTimerDue
    \/ Elapse

DebounceSpec == Init /\ [][NextDebounce]_vars

----------------------------------------------------------------------------
(* Sharing a query through the URL *)

\* the percent codes of the characters of the model's texts that an
\* encoder escapes: <<character, first hex digit, second hex digit>>
PercentCodes ==
    { <<" ", "2", "0">>, <<"\"", "2", "2">>, <<"%", "2", "5">>,
      <<"&", "2", "6">>, <<"'", "2", "7">>, <<"(", "2", "8">>,
      <<")", "2", "9">>, <<"+", "2", "B">>, <<"=", "3", "D">>,
      <<"?", "3", "F">>, <<"@", "4", "0">>, <<"[", "5", "B">>,
      <<"]", "5", "D">>, <<BackTick, "6", "0">> }

PercentCode(c) ==
    LET code == CHOOSE e \in PercentCodes : e[1] = c
    IN  <<"%", code[2], code[3]>>

\* the characters encodeURIComponent escapes: all but letters, digits and
\* - _ . ! ~ * ' ( )
UriEscaped ==
    {" ", "\"", "%", "&", "+", "=", "?", "@", "[", "]", BackTick}

\* the characters the serializer of URLSearchParams escapes: all but
\* letters, digits and * - . _ ; it writes a space as +
FormEscaped ==
    {"\"", "%", "&", "'", "(", ")", "+", "=", "?", "@", "[", "]", BackTick}

RECURSIVE encodeURIComponent(_)
encodeURIComponent(t) ==
    IF t = <<>> THEN <<>>
    ELSE (IF Head(t) \in UriEscaped THEN PercentCode(Head(t))
          ELSE <<Head(t)>>) \o encodeURIComponent(Tail(t))

RECURSIVE FormSerialize(_)
\* the application/x-www-form-urlencoded serialization of a value
FormSerialize(t) ==
    IF t = <<>> THEN <<>>
    ELSE (IF Head(t) = " " THEN <<"+">>
          ELSE IF Head(t) \in FormEscaped THEN PercentCode(Head(t))
          ELSE <<Head(t)>>) \o FormSerialize(Tail(t))

\* t starts with the percent code of a character
StartsWithCode(t) ==
    /\ Len(t) >= 3
    /\ t[1] = "%"
    /\ \E e \in PercentCodes : e[2] = t[2] /\ e[3] = t[3]

CodedChar(t) == (CHOOSE e \in PercentCodes : e[2] = t[2] /\ e[3] = t[3])[1]

RECURSIVE FormParse(_)
\* the value URLSearchParams reads from its serialization: + is a space,
\* a percent code is its character, anything else stays
FormParse(t) ==
    IF t = <<>> THEN <<>>
    ELSE IF StartsWithCode(t)
    THEN <<CodedChar(t)>> \o FormParse(SubSeq(t, 4, Len(t)))
    ELSE IF Head(t) = "+" THEN <<" ">> \o FormParse(Tail(t))
    ELSE <<Head(t)>> \o FormParse(Tail(t))

RECURSIVE decodeURIComponent(_)
\* decodeURIComponent: ok is FALSE where it throws URIError
decodeURIComponent(t) ==
    IF t = <<>> THEN [ok |-> TRUE, value |-> <<>>]
    ELSE IF Head(t) = "%"
    THEN IF StartsWithCode(t)
         THEN LET rest == decodeURIComponent(SubSeq(t, 4, Len(t)))
              IN  [ok |-> rest.ok, value |-> <<CodedChar(t)>> \o rest.value]
         ELSE [ok |-> FALSE, value |-> <<>>]
    ELSE LET rest == decodeURIComponent(Tail(t))
         IN  [ok |-> rest.ok, value |-> <<Head(t)>> \o rest.value]

\* url.toString() after url.searchParams.set('q', value), for a page whose
\* URL has no other parameter: the search part of the URL
SearchWith(value) == <<"?", "q", "=">> \o FormSerialize(value)

\* new URLSearchParams(search).get('q') for a search part that holds at
\* most the parameter q: has is FALSE where get returns null
SearchParamQ(address) ==
    IF Len(address) >= 3 /\ SubSeq(address, 1, 3) = <<"?", "q", "=">>
    THEN [has |-> TRUE, value |-> FormParse(SubSeq(address, 4, Len(address)))]
    ELSE [has |-> FALSE, value |-> <<>>]

\* the URL shareQueryViaURL copies for the text of the query input
ShareURL(text) == SearchWith(encodeURIComponent(Trim(text)))

\* click on #shareQueryBtn: App.shareQueryViaURL.  A blank query is
\* refused with a notification; a clipboard that refuses the write leaves
\* everything as it was.
ShareQueryViaURL ==
    /\ Trim(queryInput) # <<>>
    /\ clipboard' = ShareURL(queryInput)
    /\ UNCHANGED <<docVars, builderVars, engineVars, appVars, now, location,
                   urlTimer, download, storeVars>>

\* the delay of the auto-execution in loadQueryFromURL, in milliseconds
UrlDelay == 500

\* what loadQueryFromURL leaves in the query input and in the timers of a
\* page that was just opened at `address`.  A q that is absent or empty does
\* nothing; a q that decodeURIComponent rejects ends init with a URIError
\* before anything is set.
loadQueryFromURL(address) ==
    LET q == SearchParamQ(address)
        decoded == decodeURIComponent(q.value)
    IN  IF q.has /\ q.value # <<>> /\ decoded.ok
        THEN [queryInput |-> decoded.value, urlTimer |-> {UrlDelay}]
        ELSE [queryInput |-> <<>>, urlTimer |-> {}]

\* the addresses typed by hand: the bare page and a query written in clear
TypedLocations == { NoParameter, <<"?", "q", "=", "@">> }

\* the page is opened at an address: the constructor and init run on a
\* fresh document, localStorage and the clipboard stay as they were
OpenURL ==
    \E address \in TypedLocations \cup {clipboard} :
        /\ location' = address
        /\ now' = 0
        /\ jsonInput' = ""
        /\ currentJSON' = JNull
        /\ jsonError' = ""
        /\ fileReads' = <<>>
        /\ reset
        /\ queryInput' = loadQueryFromURL(address).queryInput
        /\ urlTimer' = loadQueryFromURL(address).urlTimer
        /\ currentQuery' = <<>>
        /\ queryResults' = JNull
        /\ queryError' = ""
        /\ resultsContainer' = displayResults(JNull)
        /\ currentResults' = JNull
        /\ jsonTimer' = {}
        /\ queryTimer' = {}
        /\ UNCHANGED <<clipboard, download, storeVars>>

\* the timer of loadQueryFromURL runs its callback: App.handleExecuteQuery
UrlTimerFires ==
    \E due \in urlTimer :
        /\ urlTimer' = urlTimer \ {due}
        /\ ExecutesAndStores(executeQuery(queryInput))
        /\ UNCHANGED <<queryInput, docVars, builderVars, jsonTimer,
                       queryTimer, now, location, clipboard, download,
                       savedQueries, storageFails>>

\* the texts typed into the query input before sharing
ShareTexts == { <<>>, <<"@">>, <<" ", "@">>, <<"@", " ">>,
                <<"%", "&", "+">>, <<"'", "=", "'">>,
                <<BackTick, "\"", BackTick>> }

\* the documents typed into a page opened at an address
UrlJsonTexts == { "", TextArrayDoc, TextObjectDoc, TextMalformed }

ShareTextTyped == QueryInputTypedFrom(ShareTexts)

UrlJsonTyped ==
    \E input \in UrlJsonTexts \ {jsonInput} :
        /\ jsonInput' = input
        /\ jsonTimer' = debounce(jsonTimer)
        /\ UNCHANGED <<currentJSON, jsonError, fileReads, builderVars, engineVars,
                       currentResults, queryTimer, pageVars, storeVars>>

\* typing a query, sharing it and opening the shared address
NextShare ==
    \/ ShareTextTyped
    \/ HandleQueryInput
    \/ ShareQueryViaURL
    \/ OpenURL
    \/ UrlTimerFires

ShareSpec == Init /\ [][NextShare]_vars

\* a page opened at an address, and the documents typed into it
NextUrl ==
    \/ OpenURL
    \/ UrlTimerFires
    \/ UrlJsonTyped
    \/ JsonTimerFires
    \/ HandleClear

UrlSpec == Init /\ [][NextUrl]_vars

----------------------------------------------------------------------------
(* Copy and export of the result *)

\* QueryEngine.getCurrentResults
getCurrentResults == queryResults

\* QueryEngine.getResultsText: the text the copy button puts on the clipboard
getResultsText ==
    IF Falsy(queryResults) THEN <<>> ELSE formatJSON(queryResults)

\* ResultsExporter.exportToJSON: the text of the downloaded file
exportToJSON(data) == formatJSON(data)

\* App.handleExportJSON: whether a file is written, and its text
handleExportJSON ==
    IF Falsy(currentResults)
    THEN [written |-> FALSE, text |-> <<>>]
    ELSE [written |-> TRUE, text |-> exportToJSON(currentResults)]

\* a step that calls executeQuery
Execution ==
    \/ HandleQueryInput
    \/ HandleExecuteQuery
    \/ HandleExampleQuery
    \/ BuildQuery

----------------------------------------------------------------------------
(* Export of the result as CSV *)

\* this.csvDelimiter and this.csvLineBreak
csvDelimiter == <<",">>
csvLineBreak == <<"\n">>

RECURSIVE DoubleQuotes(_)
\* value.replace(/"/g, '""')
DoubleQuotes(value) ==
    IF value = <<>> THEN <<>>
    ELSE (IF Head(value) = "\"" THEN <<"\"", "\"">> ELSE <<Head(value)>>)
         \o DoubleQuotes(Tail(value))

\* escapeCSVValue that wraps the value and leaves its quotes single
escapeCSVValueNotDoubling(value) ==
    IF \E i \in 1..Len(value) : value[i] \in {",", "\"", "\n"}
    THEN <<"\"">> \o value \o <<"\"">>
    ELSE value

escapeCSVValue(value) ==
    IF \E i \in 1..Len(value) : value[i] \in {",", "\"", "\n"}
    THEN <<"\"">> \o DoubleQuotes(value) \o <<"\"">>
    ELSE value

formatCSVValue(value) ==
    IF value.t \in {"null", "undefined"} THEN <<>>
    ELSE IF value.t \in {"object", "array"}
    THEN escapeCSVValue(stringifyCompact(value))
    ELSE escapeCSVValue(StringOf(value))

\* ResultsExporter.convertToCSV for an array of objects
convertToCSV(data) ==
    IF data = <<>> THEN <<>>
    ELSE LET headers == AllKeys(<<>>, data)
             headerRow == Join([h \in 1..Len(headers) |->
                                   escapeCSVValue(headers[h])], csvDelimiter)
             dataRows == [r \in 1..Len(data) |->
                             Join([h \in 1..Len(headers) |->
                                      formatCSVValue(Member(data[r],
                                                            headers[h]))],
                                  csvDelimiter)]
         IN  Join(<<headerRow>> \o dataRows, csvLineBreak)

\* exportToCSV that does not filter the items
exportToCSVUnfiltered(data) ==
    IF Falsy(data) THEN [ok |-> FALSE, csv |-> <<>>]
    ELSE LET dataArray == IF data.t = "array" THEN data.v ELSE <<data>>
             wrapped == [i \in 1..Len(dataArray) |->
                            IF dataArray[i].t = "object" THEN dataArray[i]
                            ELSE JObj(<<[k |-> <<"v">>, v |-> dataArray[i]]>>)]
         IN  [ok |-> TRUE, csv |-> convertToCSV(wrapped)]

\* ResultsExporter.exportToCSV: ok is FALSE where it throws, csv is the
\* text handed to downloadFile
exportToCSV(data) ==
    IF Falsy(data) THEN [ok |-> FALSE, csv |-> <<>>]
    ELSE LET dataArray == IF data.t = "array" THEN data.v ELSE <<data>>
             objects == SelectSeq(dataArray, LAMBDA item : item.t = "object")
         IN  IF objects = <<>> THEN [ok |-> FALSE, csv |-> <<>>]
             ELSE [ok |-> TRUE, csv |-> convertToCSV(objects)]

\* App.handleExportCSV: whether a file is written, its text, and the
\* notification shown
handleExportCSV ==
    IF Falsy(currentResults)
    THEN [written |-> FALSE, text |-> <<>>,
          notification |-> [type |-> "error",
                            message |-> "No results to export"]]
    ELSE LET exported == exportToCSV(currentResults)
         IN  IF exported.ok
             THEN [written |-> TRUE, text |-> exported.csv,
                   notification |-> [type |-> "success",
                                     message |-> "Exported to CSV successfully"]]
             ELSE [written |-> FALSE, text |-> <<>>,
                   notification |-> [type |-> "error",
                                     message |-> "Failed to export CSV"]]

\* click on #exportCsvBtn
HandleExportCSV ==
    /\ download' = IF handleExportCSV.written
                   THEN [written |-> TRUE, text |-> handleExportCSV.text]
                   ELSE download
    /\ UNCHANGED <<docVars, builderVars, engineVars, appVars, now, location,
                   urlTimer, clipboard, storeVars>>

\* the values of the key a in the exported records
CellValues ==
    { JNull, JNum(1), JBool(TRUE), JStr(<<>>), JStr(<<"x">>),
      JStr(<<"x", ",", "y">>), JStr(<<"q", "\"", "r">>),
      JStr(<<"l", "\n", "m">>),
      JObj(<<[k |-> <<"c">>, v |-> JNum(1)]>>),
      JArr(<<JNum(1), JNum(2)>>) }

\* the exported records: without a key, with a alone, with b alone, with
\* both in either order, and with a key that holds the delimiter
CsvRecords ==
    { JObj(<<>>),
      JObj(<<[k |-> <<"b">>, v |-> JNum(2)]>>),
      JObj(<<[k |-> <<"b">>, v |-> JNum(2)], [k |-> <<"a">>, v |-> JNum(1)]>>),
      JObj(<<[k |-> <<"k", ",">>, v |-> JNum(1)]>>) }
    \cup { JObj(<<[k |-> <<"a">>, v |-> value]>>) : value \in CellValues }
    \cup { JObj(<<[k |-> <<"a">>, v |-> value],
                  [k |-> <<"b">>, v |-> JNum(2)]>>) : value \in CellValues }

\* results that hold no object
NonRecordResults ==
    { JNull, JNum(0), JNum(5), JStr(<<"x">>), JBool(TRUE), JArr(<<>>),
      JArr(<<JNum(1), JNum(2)>>), JArr(<<JNull, JStr(<<"x">>)>>),
      JArr(<<JArr(<<JNum(1)>>)>>) }

\* the results exported: results without an object, single objects,
\* arrays of one and of two objects, and arrays that mix both kinds
CsvResults ==
    NonRecordResults \cup CsvRecords
    \cup { JArr(<<r>>) : r \in CsvRecords }
    \cup { JArr(<<r1, r2>>) : r1 \in CsvRecords, r2 \in CsvRecords }
    \cup { JArr(<<JNum(1), r, JNull>>) : r \in CsvRecords }

\* the application with a result to export
InitExport ==
    /\ jsonInput = ""
    /\ currentJSON = JNull
    /\ jsonError = ""
    /\ fileReads = <<>>
    /\ config = DefaultConfig
    /\ fieldRows = <<>>
    /\ filterRows = <<>>
    /\ sortFieldSelect = [options |-> <<>>, value |-> <<>>]
    /\ queryPreview = <<"@">>
    /\ queryInput = <<>>
    /\ currentQuery = <<>>
    /\ queryResults = JNull
    /\ queryError = ""
    /\ resultsContainer = displayResults(JNull)
    /\ currentResults \in CsvResults
    /\ jsonTimer = {}
    /\ queryTimer = {}
    /\ now = 0
    /\ location = NoParameter
    /\ urlTimer = {}
    /\ clipboard = <<>>
    /\ download = NoFile
    /\ queryHistory = <<>>
    /\ savedQueries = <<>>
    /\ storageFails = FALSE

NextExport == HandleExportCSV

ExportSpec == InitExport /\ [][NextExport]_vars

----------------------------------------------------------------------------
(* The result view under executions on a loaded document *)

\* the elements of the loaded arrays: scalars, null, an array, and mappings
\* without a key, with a, with b, with b before a, with a null and with a
\* nested value
ViewElements ==
    { JNum(1), JNull, JStr(<<"x">>), JBool(FALSE), JArr(<<JNum(1)>>),
      JObj(<<>>),
      JObj(<<[k |-> <<"a">>, v |-> JNum(1)]>>),
      JObj(<<[k |-> <<"b">>, v |-> JStr(<<"y">>)]>>),
      JObj(<<[k |-> <<"b">>, v |-> JNum(2)], [k |-> <<"a">>, v |-> JNull]>>),
      JObj(<<[k |-> <<"a">>,
              v |-> JObj(<<[k |-> <<"c">>, v |-> JNum(1)]>>)]>>) }

\* the elements that are mappings with a key
ViewRecords == { e \in ViewElements : e.t = "object" /\ e.v # <<>> }

\* the loaded documents: scalars, a mapping, and arrays of up to three
\* elements
ViewDocuments ==
    { JNum(5), JStr(<<"x">>), JBool(TRUE),
      JObj(<<[k |-> <<"a">>, v |-> JNum(1)]>>), JArr(<<>>) }
    \cup { JArr(<<e>>) : e \in ViewElements }
    \cup { JArr(<<e1, e2>>) : e1 \in ViewElements, e2 \in ViewRecords }
    \cup { JArr(<<JNum(1), e, JNull>>) : e \in ViewElements }

\* the page after the formatted text of a document was entered and
\* handleJSONInput ran on it
InitView ==
    /\ currentJSON \in ViewDocuments
    /\ jsonInput = Str(formatJSON(currentJSON))
    /\ jsonError = ""
    /\ fileReads = <<>>
    /\ config = DefaultConfig
    /\ fieldRows = <<>>
    /\ filterRows = <<>>
    /\ sortFieldSelect = [options |-> getAvailableFields, value |-> <<>>]
    /\ queryPreview = <<"@">>
    /\ queryInput = <<>>
    /\ currentQuery = <<>>
    /\ queryResults = JNull
    /\ queryError = ""
    /\ resultsContainer = displayResults(JNull)
    /\ currentResults = JNull
    /\ jsonTimer = {}
    /\ queryTimer = {}
    /\ now = 0
    /\ location = NoParameter
    /\ urlTimer = {}
    /\ clipboard = <<>>
    /\ download = NoFile
    /\ queryHistory = <<>>
    /\ savedQueries = <<>>
    /\ storageFails = FALSE

\* the texts typed over the loaded document
ViewJsonTexts == { TextNestedDoc, TextArrayDoc }

ViewJSONInput == HandleJSONInput(ViewJsonTexts)

\* typed and example queries on the loaded document, Run, Clear, and a
\* change of the document
NextView ==
    \/ ViewJSONInput
    \/ QueryInputTyped
    \/ HandleQueryInput
    \/ HandleExecuteQuery
    \/ HandleExampleQuery
    \/ HandleClearQuery

ViewSpec == InitView /\ [][NextView]_vars

----------------------------------------------------------------------------
(* Projection and sort under the complex operation, applied *)

\* the document entered before the builder is used
ComplexJsonTexts == { TextArrayDoc }

ComplexJSONInput == HandleJSONInput(ComplexJsonTexts)

\* field rows in the projection applied
MaxProjectionRows == 1

\* click on #addFieldBtn while the projection has room
AddProjectionRow ==
    /\ Len(fieldRows) < MaxProjectionRows
    /\ AddFieldSelector

\* field rows, the sort controls and the operation, and Apply
NextComplex ==
    \/ ComplexJSONInput
    \/ OperationChange
    \/ AddProjectionRow
    \/ FieldSelectChange
    \/ FieldAliasInput
    \/ RemoveFieldRow
    \/ SortFieldChange
    \/ SortDirectionChange
    \/ BuildQuery

ComplexSpec == Init /\ [][NextComplex]_vars

----------------------------------------------------------------------------
(* Loading the document from a file *)

\* maxSize of loadFromFile, in bytes
maxSize == 10 * 1024 * 1024

\* String.prototype.endsWith
endsWith(t, suffix) ==
    /\ Len(t) >= Len(suffix)
    /\ SubSeq(t, Len(t) - Len(suffix) + 1, Len(t)) = suffix

\* the files chosen or dropped: their name, their size in bytes and the
\* text file.text() resolves to
FileNames == { <<"a", ".", "j", "s", "o", "n">>, <<"a", ".", "t", "x", "t">>,
               <<"a", ".", "J", "S", "O", "N">> }
FileSizes == { 2, maxSize, maxSize + 1 }
FileTexts == { TextArrayDoc, TextObjectDoc, TextMalformed }
Files == [name : FileNames, size : FileSizes, text : FileTexts]

\* loads that were started and may be in flight together
MaxReads == 2

\* loadFromFile that reads the file whatever its size
loadFromFileAnySize(file) ==
    IF ~endsWith(file.name, <<".", "j", "s", "o", "n">>)
    THEN /\ jsonError' = "Please select a valid .json file"
         /\ UNCHANGED <<jsonInput, currentJSON, fileReads>>
    ELSE /\ Len(fileReads) < MaxReads
         /\ fileReads' = Append(fileReads, [file |-> file, state |-> "pending"])
         /\ UNCHANGED <<jsonInput, currentJSON, jsonError>>

\* JSONParser.loadFromFile up to its await: the checks of name and size,
\* then the call of file.text().  fileReads lists the loads that got that
\* far in the order they were started, with the state of their promise.
loadFromFile(file) ==
    IF ~endsWith(file.name, <<".", "j", "s", "o", "n">>)
    THEN /\ jsonError' = "Please select a valid .json file"
         /\ UNCHANGED <<jsonInput, currentJSON, fileReads>>
    ELSE IF file.size > maxSize
    THEN /\ jsonError' = "File too large. Maximum size is 10MB"
         /\ UNCHANGED <<jsonInput, currentJSON, fileReads>>
    ELSE /\ Len(fileReads) < MaxReads
         /\ fileReads' = Append(fileReads, [file |-> file, state |-> "pending"])
         /\ UNCHANGED <<jsonInput, currentJSON, jsonError>>

\* App.handleFileUpload, or the drop listener of setupDragAndDrop, called
\* with the file
HandleFileUploadOf(file) ==
    /\ loadFromFile(file)
    /\ UNCHANGED <<builderVars, engineVars, appVars, pageVars, storeVars>>

\* change of #fileInput, or a drop on the input panel
HandleFileUpload == \E file \in Files : HandleFileUploadOf(file)

\* the promise of load i resolves and loadFromFile continues behind its
\* await: the text goes into the input and is parsed, and where that
\* succeeds formatInput writes the formatted text and parses it again
FileReadCompletesAt(i) ==
    /\ fileReads[i].state = "pending"
    /\ fileReads' = [fileReads EXCEPT ![i].state = "done"]
    /\ LET text == fileReads[i].file.text
           formatted == Str(formatJSON(parse(text).currentJSON))
       IN  IF parse(text).ok
           THEN /\ jsonInput' = formatted
                /\ currentJSON' = parse(formatted).currentJSON
                /\ jsonError' = parse(formatted).error
           ELSE /\ jsonInput' = text
                /\ currentJSON' = parse(text).currentJSON
                /\ jsonError' = parse(text).error
    /\ UNCHANGED <<builderVars, engineVars, appVars, pageVars, storeVars>>

\* the reads complete in any order
FileReadCompletes == \E i \in 1..Len(fileReads) : FileReadCompletesAt(i)

\* the promise of load i rejects: the catch of loadFromFile (the error
\* text is followed by the message of the rejection, left out here)
FileReadFails ==
    \E i \in 1..Len(fileReads) :
        /\ fileReads[i].state = "pending"
        /\ fileReads' = [fileReads EXCEPT ![i].state = "failed"]
        /\ jsonError' = "Error reading file"
        /\ UNCHANGED <<jsonInput, currentJSON>>
        /\ UNCHANGED <<builderVars, engineVars, appVars, pageVars, storeVars>>

\* the texts typed into the JSON input between the loads
FileJsonTexts == { "", TextNumberDoc }

FileJsonTyped ==
    \E input \in FileJsonTexts \ {jsonInput} :
        /\ jsonInput' = input
        /\ jsonTimer' = debounce(jsonTimer)
        /\ UNCHANGED <<currentJSON, jsonError, fileReads, builderVars,
                       engineVars, currentResults, queryTimer, pageVars,
                       storeVars>>

\* files chosen and read, and the document typed
NextFile ==
    \/ HandleFileUpload
    \/ FileReadCompletes
    \/ FileReadFails
    \/ FileJsonTyped
    \/ JsonTimerFires

FileSpec == Init /\ [][NextFile]_vars

----------------------------------------------------------------------------
(* The history under calls of addToHistory *)

\* the texts passed to addToHistory: empty, blank and three expressions
HistoryTexts == { <<>>, <<" ">>, <<"@">>, <<"a">>, <<"a", " ">> }

\* a call of addToHistory with one of texts
AddToHistoryFrom(texts) ==
    \E query \in texts :
        /\ queryHistory' = addToHistory(query)
        /\ UNCHANGED <<docVars, builderVars, engineVars, appVars, pageVars,
                       savedQueries, storageFails>>

AddToHistory == AddToHistoryFrom(HistoryTexts)

\* localStorage starts or stops refusing writes (the quota is reached or
\* freed, storage is disabled or enabled)
StorageChanges ==
    /\ storageFails' = ~storageFails
    /\ UNCHANGED <<docVars, builderVars, engineVars, appVars, pageVars,
                   queryHistory, savedQueries>>

NextHistory ==
    \/ AddToHistory
    \/ StorageChanges
    \/ Elapse

HistorySpec == Init /\ [][NextHistory]_vars

\* the number of distinct texts of the long run
TextCount == 52

\* the n-th text of the long run: the decimal digits of n
HistoryText(n) == DecimalText(n)

\* the number of texts of the long run added so far: the texts are added
\* in order, and the latest one is still in the history
TextsAdded ==
    LET present == { n \in 1..TextCount :
                       \E i \in 1..Len(queryHistory) :
                           queryHistory[i].query = HistoryText(n) }
    IN  IF present = {} THEN 0 ELSE CHOOSE n \in present :
                                        \A m \in present : m <= n

\* addToHistory with the next text of the long run
AddNextText ==
    /\ TextsAdded < TextCount
    /\ AddToHistoryFrom({HistoryText(TextsAdded + 1)})

\* addToHistory with the first text of the long run, once more
AddFirstTextAgain ==
    /\ TextsAdded >= 1
    /\ AddToHistoryFrom({HistoryText(1)})

NextCap ==
    \/ AddNextText
    \/ AddFirstTextAgain

CapSpec == Init /\ [][NextCap]_vars

----------------------------------------------------------------------------
(* The saved queries under calls of the StorageManager *)

\* the clock of the saved queries stops at MaxStoreNow milliseconds
MaxStoreNow == 500

\* the arguments of saveQuery
SaveNames == { <<>>, <<"a">>, <<"b">> }
SaveQueries == { <<>>, <<"@">>, <<"a">> }
Descriptions == { <<>>, <<"d">> }

\* a saved query of an imported file
Imported(name, query) ==
    [id |-> IdText(9), name |-> name, query |-> query, description |-> <<>>,
     createdAt |-> 0, updatedAt |-> 0]

\* what JSON.parse gives for the imported files: text that is no array, an
\* empty array, an array with one name twice and an array with two names
ImportFiles ==
    { [array |-> FALSE, records |-> <<>>],
      [array |-> TRUE, records |-> <<>>],
      [array |-> TRUE, records |-> <<Imported(<<"a">>, <<"@">>),
                                     Imported(<<"a">>, <<"a">>)>>],
      [array |-> TRUE, records |-> <<Imported(<<"b">>, <<"@">>),
                                     Imported(<<"a">>, <<"@">>)>>] }

SaveQuery ==
    \E name \in SaveNames, query \in SaveQueries,
       description \in Descriptions :
        /\ savedQueries' = saveQuery(name, query, description).savedQueries
        /\ UNCHANGED <<docVars, builderVars, engineVars, appVars, pageVars,
                       queryHistory, storageFails>>

ImportSavedQueries ==
    \E imported \in ImportFiles :
        /\ savedQueries' = importSavedQueries(imported)
        /\ UNCHANGED <<docVars, builderVars, engineVars, appVars, pageVars,
                       queryHistory, storageFails>>

\* deleteSavedQuery with the id of a stored record
DeleteSavedQuery ==
    \E i \in 1..Len(savedQueries) :
        /\ savedQueries' = deleteSavedQuery(savedQueries[i].id)
        /\ UNCHANGED <<docVars, builderVars, engineVars, appVars, pageVars,
                       queryHistory, storageFails>>

StoreElapse == ElapseTo(MaxStoreNow)

NextStore ==
    \/ SaveQuery
    \/ ImportSavedQueries
    \/ DeleteSavedQuery
    \/ StorageChanges
    \/ StoreElapse

StoreSpec == Init /\ [][NextStore]_vars

----------------------------------------------------------------------------
(* Saving and deleting queries through the application *)

\* the texts typed into the name field of the save dialog
NameInputs == { <<>>, <<" ">>, <<"a">>, <<"b">> }

\* App.handleSaveQuery for the name and the description typed into the
\* dialog that openSaveQueryModal opened on the query input: the stored
\* list it leaves and the notification it shows.  saveQuery catches its
\* own errors, so the catch of handleSaveQuery is never entered.
handleSaveQuery(nameInput, descInput) ==
    LET name == Trim(nameInput)
        description == Trim(descInput)
        query == Trim(queryInput)
    IN  IF name = <<>>
        THEN [savedQueries |-> savedQueries,
              notification |-> [type |-> "error",
                                message |-> "Please enter a query name"]]
        ELSE [savedQueries |-> saveQuery(name, query, description).savedQueries,
              notification |-> [type |-> "success",
                                message |-> "saved successfully"]]

\* click on #saveQueryBtn with a query in the input, then the form is
\* submitted
HandleSaveQuery ==
    /\ Trim(queryInput) # <<>>
    /\ \E nameInput \in NameInputs, descInput \in Descriptions :
          savedQueries' = handleSaveQuery(nameInput, descInput).savedQueries
    /\ UNCHANGED <<docVars, builderVars, engineVars, appVars, pageVars,
                   queryHistory, storageFails>>

\* App.deleteSavedQuery(name), confirmed: the stored list it leaves
appDeleteSavedQuery(name) == deleteSavedQuery(name)

\* click on the Delete button of a saved query, confirmed
DeleteClicked ==
    \E i \in 1..Len(savedQueries) :
        /\ savedQueries' = appDeleteSavedQuery(savedQueries[i].name)
        /\ UNCHANGED <<docVars, builderVars, engineVars, appVars, pageVars,
                       queryHistory, storageFails>>

NextAppStore ==
    \/ QueryInputTyped
    \/ HandleQueryInput
    \/ HandleSaveQuery
    \/ DeleteClicked
    \/ StorageChanges
    \/ StoreElapse

AppStoreSpec == Init /\ [][NextAppStore]_vars

----------------------------------------------------------------------------
(* Properties of the builder and its generator *)

\* the expression text the generator returns for the current configuration
GeneratedText == generateQuery(config)

AllEmpty(c) ==
    c.selectedFields = <<>> /\ c.filters = <<>> /\ c.sortField = <<>>

RECURSIVE JoinStr(_, _)
\* the strings of a sequence written one after the other with sep between
JoinStr(strs, sep) ==
    IF strs = <<>> THEN ""
    ELSE IF Len(strs) = 1 THEN strs[1]
    ELSE strs[1] \o sep \o JoinStr(Tail(strs), sep)

\* C1: in every reachable builder configuration the generated text is a
\* syntactically valid expression for the evaluator.
C1_GeneratedTextIsValid == ValidExpression(GeneratedText)

\* C2: the generated text depends on the configuration alone: over every
\* step that leaves the configuration as it is (a document change, rows
\* added to the DOM, the engine cleared) the generator returns the same text
\* and the preview shows the same text; regenerating on a document change
\* does not modify the configuration.
C2_GeneratorDeterminism ==
    [][ /\ currentJSON' # currentJSON => config' = config
        /\ config' = config =>
              /\ GeneratedText' = GeneratedText
              /\ queryPreview' = queryPreview ]_vars

\* a document change has regenerated the text of a configuration with a
\* sort field, a filter and a projection
C2_Witness ==
    /\ config.operation = "complex"
    /\ config.sortField # <<>>
    /\ config.filters # <<>>
    /\ config.selectedFields # <<>>
    /\ Falsy(currentJSON)
    /\ queryPreview = GeneratedText

C4_OperationChangeKeepsSections ==
    [][ config'.operation # config.operation =>
          \/ HandleClearQuery
          \/ /\ config'.selectedFields = config.selectedFields
             /\ config'.filters = config.filters
             /\ config'.sortField = config.sortField
             /\ config'.sortDirection = config.sortDirection ]_vars

\* the operation has been switched away from select with a projection, a
\* filter and a descending sort configured
C4_Witness ==
    /\ config.operation = "sort"
    /\ config.selectedFields # <<>>
    /\ config.filters # <<>>
    /\ config.sortField # <<>>
    /\ config.sortDirection = "desc"

\* C5: reset leaves the default configuration, and the generated and the
\* previewed expression are the identity expression.
C5_ResetRestoresDefault ==
    [][ HandleClearQuery =>
          /\ config' = DefaultConfig
          /\ fieldRows' = <<>> /\ filterRows' = <<>>
          /\ Str(queryPreview') = "@"
          /\ Str(GeneratedText') = "@" ]_vars

\* a state reset acts on: another operation than select, with a projection,
\* a filter and a descending sort configured
C5_Witness ==
    /\ ENABLED HandleClearQuery
    /\ config.operation = "count"
    /\ config.selectedFields # <<>>
    /\ config.filters # <<>>
    /\ config.sortField # <<>>
    /\ config.sortDirection = "desc"

\* C6: the generated text reads only the sections of the active operation:
\* select ignores the filters and the sort state, filter and count ignore the
\* projection and the sort state, sort ignores the projection and the
\* filters; under complex each populated section shows in the text.
C6_OnlyActiveSections ==
    LET c  == config
        op == config.operation
    IN  /\ op = "select" =>
              generateQuery(c) =
              generateQuery([c EXCEPT !.filters = <<>>, !.sortField = <<>>,
                                      !.sortDirection = "asc"])
        /\ op \in {"filter", "count"} =>
              generateQuery(c) =
              generateQuery([c EXCEPT !.selectedFields = <<>>,
                                      !.sortField = <<>>,
                                      !.sortDirection = "asc"])
        /\ op = "sort" =>
              generateQuery(c) =
              generateQuery([c EXCEPT !.selectedFields = <<>>,
                                      !.filters = <<>>])
        /\ op = "complex" =>
              /\ c.selectedFields # <<>> =>
                    generateQuery(c) #
                    generateQuery([c EXCEPT !.selectedFields = <<>>])
              /\ c.filters # <<>> =>
                    generateQuery(c) # generateQuery([c EXCEPT !.filters = <<>>])
              /\ c.sortField # <<>> =>
                    generateQuery(c) # generateQuery([c EXCEPT !.sortField = <<>>])

\* select is active while a filter and a sort field are configured
C6_Witness ==
    /\ config.operation = "select"
    /\ config.selectedFields # <<>>
    /\ config.filters # <<>>
    /\ config.sortField # <<>>

\* the field rows that have a field chosen
ChosenFieldRows == SelectSeq(fieldRows, LAMBDA row : row.field # <<>>)

\* C7: under select with selected fields the text is [*].{ e1, ..., en }
\* with ei = alias: field of the i-th selected field, in list order; the
\* selected fields are the rows with a field, in row order, and a row with a
\* blank alias has its field as alias; (b,B),(a,A) gives B before A.
C7_SelectRule ==
    /\ config.selectedFields =
          [i \in 1..Len(ChosenFieldRows) |->
              [field |-> ChosenFieldRows[i].field,
               alias |-> IF ChosenFieldRows[i].alias = <<>>
                         THEN ChosenFieldRows[i].field
                         ELSE ChosenFieldRows[i].alias]]
    /\ config.operation = "select" /\ config.selectedFields # <<>> =>
          Str(GeneratedText) =
              "[*].{"
              \o JoinStr([i \in 1..Len(config.selectedFields) |->
                            Str(config.selectedFields[i].alias) \o ": "
                            \o Str(config.selectedFields[i].field)], ", ")
              \o "}"
    /\ /\ config.operation = "select"
       /\ config.selectedFields = << [field |-> <<"b">>, alias |-> <<"B">>],
                                     [field |-> <<"a">>, alias |-> <<"A">>] >>
       => Str(GeneratedText) = "[*].{B: b, A: a}"

\* b is selected with alias B before a with alias A
C7_Witness ==
    /\ config.operation = "select"
    /\ config.selectedFields = << [field |-> <<"b">>, alias |-> <<"B">>],
                                  [field |-> <<"a">>, alias |-> <<"A">>] >>

\* C8: under filter with filters the text is [?c1 && ... && cn] where ci is
\* the formatted condition of the i-th filter.
C8_FilterRule ==
    config.operation = "filter" /\ config.filters # <<>> =>
        Str(GeneratedText) =
            "[?"
            \o JoinStr([i \in 1..Len(config.filters) |->
                          Str(formatFilterCondition(config.filters[i]))], " && ")
            \o "]"

\* two different filters are configured under filter
C8_Witness ==
    /\ config.operation = "filter"
    /\ Len(config.filters) = 2
    /\ config.filters[1] # config.filters[2]

\* C9: under count the text is length(@) without filters and length(F)
\* with filters, F being the text of the filter operation for the same filters.
C9_CountRule ==
    config.operation = "count" =>
        Str(GeneratedText) =
            IF config.filters = <<>> THEN "length(@)"
            ELSE "length("
                 \o Str(generateQuery([config EXCEPT !.operation = "filter"]))
                 \o ")"

\* count is active with a filter configured
C9_Witness ==
    /\ config.operation = "count"
    /\ config.filters # <<>>

\* C10: under sort the text is @ without a sort field, whatever the
\* direction, sort_by(@, &f) for field f ascending, and reverse( ) around
\* that text for f descending.
C10_SortRule ==
    config.operation = "sort" =>
        LET ascending == "sort_by(@, &" \o Str(config.sortField) \o ")"
        IN  Str(GeneratedText) =
                IF config.sortField = <<>> THEN "@"
                ELSE IF config.sortDirection = "desc"
                THEN "reverse(" \o ascending \o ")"
                ELSE ascending

\* sort is active with a sort field and the descending direction
C10_Witness ==
    /\ config.operation = "sort"
    /\ config.sortField # <<>>
    /\ config.sortDirection = "desc"

\* C11: under complex the text is composed in the order filter, projection,
\* sort: the innermost part is [?c1 && ... && cn] with filters and [*]
\* without; .{projection} follows it exactly when fields are selected; the
\* whole is wrapped in sort_by( , &f) exactly when a sort field f is set and
\* in reverse( ) around that exactly when the direction is descending too.
C11_ComplexRule ==
    config.operation = "complex" =>
        LET inner ==
                IF config.filters = <<>> THEN "[*]"
                ELSE "[?"
                     \o JoinStr([i \in 1..Len(config.filters) |->
                            Str(formatFilterCondition(config.filters[i]))],
                            " && ")
                     \o "]"
            projected ==
                IF config.selectedFields = <<>> THEN inner
                ELSE inner \o ".{"
                     \o JoinStr([i \in 1..Len(config.selectedFields) |->
                            Str(config.selectedFields[i].alias) \o ": "
                            \o Str(config.selectedFields[i].field)], ", ")
                     \o "}"
            sorted == "sort_by(" \o projected \o ", &"
                      \o Str(config.sortField) \o ")"
        IN  Str(GeneratedText) =
                IF config.sortField = <<>> THEN projected
                ELSE IF config.sortDirection = "desc"
                THEN "reverse(" \o sorted \o ")"
                ELSE sorted

\* complex is active with a filter, a projection and a descending sort
C11_Witness ==
    /\ config.operation = "complex"
    /\ config.filters # <<>>
    /\ config.selectedFields # <<>>
    /\ config.sortField # <<>>
    /\ config.sortDirection = "desc"

\* the value literal formatFilterCondition writes for a filter: the text
\* between the last blank of the condition and its end or closing bracket
ValueLiteral(filter) ==
    IF isNaN(filter.value)
    THEN Quote \o Str(filter.value) \o Quote
    ELSE BackTick \o Str(filter.value) \o BackTick

\* C12: a condition with one of ==, !=, >, >=, <, <= is written
\* field operator literal, and one with contains, starts_with or ends_with
\* as the call name(field, literal); the operator alone decides the shape,
\* whatever its applicability class and whatever the value, and every
\* stored filter has a condition text.
C12_ConditionShape ==
    LET shape(f) ==
            IF f.operator \in {"==", "!=", ">", ">=", "<", "<="}
            THEN Str(f.field) \o " " \o f.operator \o " " \o ValueLiteral(f)
            ELSE f.operator \o "(" \o Str(f.field) \o ", "
                 \o ValueLiteral(f) \o ")"
    IN  /\ \A i \in 1..Len(config.filters) :
              /\ config.filters[i].operator \in OperatorValues
              /\ Str(formatFilterCondition(config.filters[i])) =
                    shape(config.filters[i])
        /\ config.operation = "filter" /\ config.filters # <<>> =>
              Str(queryPreview) =
                  "[?"
                  \o JoinStr([i \in 1..Len(config.filters) |->
                                shape(config.filters[i])], " && ")
                  \o "]"

\* an operator of the string class with a numeric value, shown in the
\* preview of the filter operation
C12_Witness ==
    /\ config.operation = "filter"
    /\ Len(config.filters) = 1
    /\ config.filters[1].operator = "ends_with"
    /\ config.filters[1].value = <<"2", "5">>
    /\ Str(queryPreview) = "[?ends_with(a, #25#)]"

\* the text is a decimal number: an optional sign, digits with an optional
\* fraction, an optional exponent
IsDecimalNumber(text) ==
    LET u == IF text # <<>> /\ Head(text) \in {"+", "-"} THEN Tail(text)
             ELSE text
        e == FirstIn(u, {"e", "E"})
    IN  IF e = 0 THEN IsMantissa(u)
        ELSE IsMantissa(SubSeq(u, 1, e - 1))
             /\ IsExponent(SubSeq(u, e + 1, Len(u)))

\* C13: a filter value is written as a back-tick numeric literal exactly
\* when its text is a decimal number, and as a single-quoted text literal
\* otherwise (a blank, 0x10, Infinity, abc).
C13_DecimalLiteralOnly ==
    \A i \in 1..Len(config.filters) :
        LET f       == config.filters[i]
            literal == formatFilterCondition(
                           [field |-> <<>>, operator |-> "==",
                            value |-> f.value])
        IN  Str(literal) =
                IF IsDecimalNumber(f.value)
                THEN " == " \o BackTick \o Str(f.value) \o BackTick
                ELSE " == " \o Quote \o Str(f.value) \o Quote

\* the expression texts executeQuery is called with
ExecutedTexts == QueryTexts \cup Range(exampleQueries)

\* C14: executeQuery checks first for a document, then for a non-blank
\* expression, then calls the evaluator: without a document the outcome is
\* the no-document error, also for a blank expression; with a document and
\* a blank expression no error is shown; with a document and a non-blank
\* expression an evaluator failure shows the evaluator's message; it
\* returns true exactly when the evaluator returned normally.
C14_ExecuteSequencing ==
    \A q \in ExecutedTexts :
        LET r == executeQuery(q)
            e == search(currentJSON, q)
        IN  /\ currentJSON = JNull =>
                  r.queryError = NoDataMessage /\ ~r.success
            /\ currentJSON # JNull /\ Trim(q) = <<>> =>
                  r.queryError = "" /\ ~r.success
            /\ currentJSON # JNull /\ Trim(q) # <<>> =>
                  /\ r.success = e.ok
                  /\ ~e.ok => r.queryError = e.message

\* C15: once the JSON input has been parsed with success and no change of
\* it is pending, whatever valid text it holds (0, false and "" too),
\* executing a non-blank expression does not end in the no-document error.
C15_NoDataOnlyWithoutDocument ==
    jsonTimer = {} /\ parse(jsonInput).ok =>
        \A q \in ExecutedTexts :
            Trim(q) # <<>> => executeQuery(q).queryError # NoDataMessage

\* C16: while the error of a failed evaluation is shown, no earlier result
\* can be copied or exported.
C16_ErrorDiscardsResult ==
    queryError \notin {"", NoDataMessage} =>
        /\ getCurrentResults = JNull
        /\ getResultsText = <<>>
        /\ ~handleExportJSON.written

\* C17: a step that changes the document, clears it, or is an execution
\* ending in the no-document or the blank-expression outcome leaves no
\* result to copy or to export.
C17_ResultNotOutlived ==
    [][ (\/ currentJSON' # currentJSON
         \/ JsonTimerFires
         \/ HandleClear
         \/ Execution /\ (Falsy(currentJSON) \/ Trim(queryInput') = <<>>))
        => /\ getResultsText' = <<>>
           /\ ~handleExportJSON'.written ]_vars

\* C18: whenever the engine holds the result of its latest successful
\* execution, JSON export writes the indent-2 text of that result.
C18_ExportWritesCurrentResult ==
    ~Falsy(queryResults) =>
        /\ handleExportJSON.written
        /\ handleExportJSON.text = formatJSON(queryResults)

\* C19: parsing malformed text leaves no document, whatever was loaded
\* before, and shows the JSON parser's message, which is not empty; parsing
\* valid text leaves the parsed value and no error; parsing blank text
\* leaves no document and no error.
C19_ParseOutcomes ==
    [][ JsonTimerFires =>
          LET v == validateJSON(jsonInput)
          IN  /\ IsBlank(jsonInput) =>
                    currentJSON' = JNull /\ jsonError' = ""
              /\ ~IsBlank(jsonInput) /\ v.valid =>
                    currentJSON' = v.data /\ jsonError' = ""
              /\ ~IsBlank(jsonInput) /\ ~v.valid =>
                    /\ currentJSON' = JNull
                    /\ jsonError' = v.error
                    /\ jsonError' # "" ]_vars

\* malformed text has been parsed after a document that had been loaded
\* and queried: the result of the query is still there, the document is not
C19_Witness ==
    /\ jsonInput = TextMalformed
    /\ jsonTimer = {}
    /\ jsonError # ""
    /\ currentJSON = JNull
    /\ queryResults.t = "array"

\* C20: an execution reads a document that reflects the text of the JSON
\* input: none runs while a change of the JSON input waits for its timer.
C20_DocumentBeforeExecution ==
    [][ Execution =>
          /\ jsonTimer = {}
          /\ currentJSON = parse(jsonInput).currentJSON ]_vars

\* C21: each debounced listener has at most one evaluation pending; a
\* trigger cancels the pending evaluation and schedules one 500 ms after
\* itself; the clock never passes a pending evaluation, so the evaluation
\* of a burst runs 500 ms after the last trigger, once, and it reads the
\* input present at that time.
C21_Debounce ==
    [][ /\ Cardinality(jsonTimer') <= 1
        /\ Cardinality(queryTimer') <= 1
        /\ jsonInput' # jsonInput => jsonTimer' = {now + 500}
        /\ queryInput' # queryInput => queryTimer' = {now + 500}
        /\ \A due \in jsonTimer' \cup queryTimer' : now' <= due
        /\ jsonTimer' # jsonTimer /\ jsonInput' = jsonInput =>
              /\ jsonTimer = {now}
              /\ jsonTimer' = {}
              /\ currentJSON' = parse(jsonInput).currentJSON
              /\ jsonError' = parse(jsonInput).error
        /\ queryTimer' # queryTimer /\ queryInput' = queryInput =>
              /\ queryTimer = {now}
              /\ queryTimer' = {}
              /\ Executes(executeQuery(queryInput)) ]_vars

\* a burst of two triggers, at 0 ms and at 250 ms: the document was typed
\* and replaced by malformed text, and the one evaluation ran at 750 ms on
\* the malformed text
C21_Witness ==
    /\ now = 750
    /\ jsonTimer = {}
    /\ jsonInput = TextMalformed
    /\ jsonError # ""
    /\ queryTimer = {1000}

\* C22: on a page opened with a query in its address, once a document is
\* there and no timer is pending, the engine holds the outcome of the
\* address's query on that document: the query was executed against the
\* document without the user doing anything more.
C22_UrlQueryExecuted ==
    /\ SearchParamQ(location).has
    /\ queryInput = loadQueryFromURL(location).queryInput
    /\ currentJSON # JNull
    /\ urlTimer = {} /\ jsonTimer = {} /\ queryTimer = {}
    => /\ currentQuery = queryInput
       /\ queryError = ""
       /\ queryResults = search(currentJSON, queryInput).value

\* C23: the page opened at the address that shareQueryViaURL copied for
\* the text of the query input has that very text in its query input.
C23_ShareRoundTrip ==
    [][ OpenURL /\ clipboard = ShareURL(queryInput) /\ location' = clipboard
          => queryInput' = queryInput ]_vars

\* the expression texts of a list of records, in order
Queries(records) == [i \in 1..Len(records) |-> records[i].query]

\* C24: no two history entries have the same text.  A call with a blank
\* text changes nothing.  A call with a text that is present, stored
\* without error, keeps the number of entries, puts that text in front with
\* the time of the call, and keeps the other entries as and where they were
\* relative to each other.
C24_HistoryDeduplicated ==
    [][ \A query \in HistoryTexts :
          queryHistory' = addToHistory(query) =>
            /\ \A i, j \in 1..Len(queryHistory') :
                  queryHistory'[i].query = queryHistory'[j].query => i = j
            /\ Trim(query) = <<>> => queryHistory' = queryHistory
            /\ /\ ~storageFails
               /\ \E i \in 1..Len(queryHistory) :
                      queryHistory[i].query = query
               => /\ Len(queryHistory') = Len(queryHistory)
                  /\ queryHistory'[1].query = query
                  /\ queryHistory'[1].timestamp = now
                  /\ Tail(queryHistory') =
                        SelectSeq(queryHistory,
                                  LAMBDA item : item.query # query) ]_vars

\* "a" was added at 0 ms, "@" after it, and "a" again at 500 ms: two
\* entries, "a" in front with the later time
C24_Witness ==
    /\ Len(queryHistory) = 2
    /\ queryHistory[1].query = <<"a">>
    /\ queryHistory[1].timestamp = 500
    /\ queryHistory[2].query = <<"@">>
    /\ queryHistory[2].timestamp = 0

\* C25: the history never holds more than 50 entries.  A call with a new
\* text puts it in front of the entries there were, in their order; when
\* there were 50, the last of them, the least recently added, is the one
\* entry dropped.  A call with a text that is present drops none.
C25_HistoryCap ==
    [][ \A n \in 1..TextCount :
          LET query == HistoryText(n)
              old == Queries(queryHistory)
              new == Queries(queryHistory')
          IN  queryHistory' = addToHistory(query) =>
                /\ Len(new) <= 50
                /\ new[1] = query
                /\ query \notin Range(old) /\ Len(old) < 50 =>
                      new = <<query>> \o old
                /\ query \notin Range(old) /\ Len(old) = 50 =>
                      new = <<query>> \o SubSeq(old, 1, 49)
                /\ query \in Range(old) =>
                      Range(new) = Range(old) /\ Len(new) = Len(old) ]_vars

\* the 51st text was added to a full history: it is in front, the second
\* text is the oldest left and the first text is gone
C25_Witness ==
    /\ Len(queryHistory) = 50
    /\ queryHistory[1].query = HistoryText(51)
    /\ queryHistory[50].query = HistoryText(2)

\* C26: no two saved records have the same name.  saveQuery with an empty
\* name or an empty expression changes nothing.  saveQuery with the name of
\* a stored record, stored without error, replaces that record where it
\* is, with its id and createdAt, the new expression and description and
\* the time of the call as updatedAt, and leaves every other record and
\* the number of records as they were.
C26_SavedNamesUnique ==
    [][ /\ \A i, j \in 1..Len(savedQueries') :
              savedQueries'[i].name = savedQueries'[j].name => i = j
        /\ \A name \in SaveNames, query \in SaveQueries,
              description \in Descriptions :
              savedQueries' = saveQuery(name, query, description).savedQueries
              => /\ name = <<>> \/ query = <<>> =>
                       savedQueries' = savedQueries
                 /\ \A i \in 1..Len(savedQueries) :
                       /\ name # <<>> /\ query # <<>> /\ ~storageFails
                       /\ savedQueries[i].name = name
                       => /\ Len(savedQueries') = Len(savedQueries)
                          /\ savedQueries'[i] =
                                [id |-> savedQueries[i].id,
                                 name |-> name,
                                 query |-> query,
                                 description |-> description,
                                 createdAt |-> savedQueries[i].createdAt,
                                 updatedAt |-> now]
                          /\ \A j \in 1..Len(savedQueries) :
                                j # i => savedQueries'[j] = savedQueries[j]
      ]_vars

\* two records; the second one was saved at 0 ms and saved again under its
\* name at 500 ms with another expression
C26_Witness ==
    /\ Len(savedQueries) = 2
    /\ savedQueries[2].name = <<"a">>
    /\ savedQueries[2].query = <<"a">>
    /\ savedQueries[2].createdAt = 0
    /\ savedQueries[2].updatedAt = 500
    /\ savedQueries[1].name = <<"b">>

\* C27: while localStorage accepts writes, App.deleteSavedQuery with the
\* name of a stored record leaves no record of that name and every other
\* record as it was.
C27_DeleteByName ==
    ~storageFails =>
        \A i \in 1..Len(savedQueries) :
            appDeleteSavedQuery(savedQueries[i].name) =
                SelectSeq(savedQueries,
                          LAMBDA q : q.name # savedQueries[i].name)

\* C28: while localStorage refuses writes, submitting the save dialog with
\* a name shows an error notification and no success notification.
C28_StorageErrorSurfaced ==
    storageFails /\ Trim(queryInput) # <<>> =>
        \A nameInput \in NameInputs, descInput \in Descriptions :
            Trim(nameInput) # <<>> =>
                handleSaveQuery(nameInput, descInput).notification.type
                    = "error"

\* the result holds no object: it is absent, a scalar, or an array none of
\* whose items is an object
HoldsNoRecord(v) ==
    \/ v.t \notin {"object", "array"}
    \/ v.t = "array" /\ \A i \in 1..Len(v.v) : v.v[i].t # "object"

RECURSIVE ReadQuoted(_, _, _)
\* the rest of a quoted CSV field of t from position j on: a doubled quote
\* is a quote, a single one ends the field
ReadQuoted(t, j, acc) ==
    IF j > Len(t) THEN [value |-> acc, next |-> j]
    ELSE IF t[j] = "\""
    THEN IF j + 1 <= Len(t) /\ t[j + 1] = "\""
         THEN ReadQuoted(t, j + 2, Append(acc, "\""))
         ELSE [value |-> acc, next |-> j + 1]
    ELSE ReadQuoted(t, j + 1, Append(acc, t[j]))

RECURSIVE ReadPlain(_, _, _)
\* an unquoted CSV field of t from position j on, up to a comma, a line
\* break or the end
ReadPlain(t, j, acc) ==
    IF j > Len(t) \/ t[j] \in {",", "\n"} THEN [value |-> acc, next |-> j]
    ELSE ReadPlain(t, j + 1, Append(acc, t[j]))

RECURSIVE ReadRows(_, _, _, _)
\* the rows a CSV reader finds in t from position i on
ReadRows(t, i, row, rows) ==
    LET field == IF i <= Len(t) /\ t[i] = "\""
                 THEN ReadQuoted(t, i + 1, <<>>)
                 ELSE ReadPlain(t, i, <<>>)
        cells == Append(row, field.value)
    IN  IF field.next > Len(t) THEN Append(rows, cells)
        ELSE IF t[field.next] = ","
        THEN ReadRows(t, field.next + 1, cells, rows)
        ELSE ReadRows(t, field.next + 1, <<>>, Append(rows, cells))

\* the table a CSV reader finds in a text: rows of cells
ReadCsv(t) == ReadRows(t, 1, <<>>, <<>>)

RECURSIVE FirstSeen(_)
\* a list without the later occurrences of its elements
FirstSeen(list) ==
    IF list = <<>> THEN <<>>
    ELSE LET front == FirstSeen(SubSeq(list, 1, Len(list) - 1))
             last == list[Len(list)]
         IN  IF last \in Range(front) THEN front ELSE Append(front, last)

\* the text of the cell of a value: nothing for a missing or null value,
\* the compact JSON text of an object or array, the value's text otherwise
CellText(value) ==
    IF value.t \in {"null", "undefined"} THEN <<>>
    ELSE IF value.t \in {"object", "array"} THEN stringifyCompact(value)
    ELSE StringOf(value)

\* the table of a sequence of records: the header row of their keys in
\* first-seen order, then a row per record with a cell per header column.
\* A reader takes a line without columns for one empty cell.
TableOf(records) ==
    LET headers == FirstSeen(Concat([r \in 1..Len(records) |->
                       [m \in 1..Len(records[r].v) |-> records[r].v[m].k]]))
        line(cells) == IF cells = <<>> THEN << <<>> >> ELSE cells
    IN  <<line(headers)>> \o
        [r \in 1..Len(records) |->
            line([h \in 1..Len(headers) |->
                     CellText(Member(records[r], headers[h]))])]

\* C29: when the current result is absent or holds no object, the CSV
\* export writes no file and shows an error notification; when it is a
\* single object, the export writes the header row and one row.  A file
\* that was written is the CSV text of the current result's objects.
C29_ExportAborts ==
    /\ HoldsNoRecord(currentResults) =>
          /\ ~handleExportCSV.written
          /\ handleExportCSV.notification.type = "error"
    /\ currentResults.t = "object" =>
          /\ handleExportCSV.written
          /\ handleExportCSV.notification.type = "success"
          /\ ReadCsv(handleExportCSV.text) = TableOf(<<currentResults>>)
          /\ Len(ReadCsv(handleExportCSV.text)) = 2
    /\ download.written => ~HoldsNoRecord(currentResults)

\* the single object {"a":"x,y","b":2} was exported as a header row and
\* one row
C29_Witness ==
    /\ currentResults = JObj(<<[k |-> <<"a">>, v |-> JStr(<<"x", ",", "y">>)],
                               [k |-> <<"b">>, v |-> JNum(2)]>>)
    /\ download.written
    /\ Str(download.text) = "a,b\n\"x,y\",2"

\* C30: for a non-empty array of objects a CSV reader finds in the text
\* of convertToCSV the table of the records: the header row of the keys in
\* first-seen order and one row per record with one cell per column,
\* empty for a missing or null value, the compact JSON text for an object
\* or array; so every header or cell that holds the delimiter, a quote or
\* a line break is wrapped in quotes with its quotes doubled.  For
\* [{a:1},{b:2}] the text is the lines a,b and 1, and ,2.
C30_CsvShape ==
    /\ /\ currentResults.t = "array"
       /\ currentResults.v # <<>>
       /\ \A i \in 1..Len(currentResults.v) :
             currentResults.v[i].t = "object"
       => /\ ReadCsv(convertToCSV(currentResults.v))
               = TableOf(currentResults.v)
          /\ download.written =>
                download.text = convertToCSV(currentResults.v)
    /\ Str(convertToCSV(<<JObj(<<[k |-> <<"a">>, v |-> JNum(1)]>>),
                          JObj(<<[k |-> <<"b">>, v |-> JNum(2)]>>)>>))
          = "a,b\n1,\n,2"

\* the array [{"a":"q\"r","b":2},{"b":2,"a":1}] was exported: the cell with
\* the quote is wrapped and its quote doubled
C30_Witness ==
    /\ currentResults =
          JArr(<<JObj(<<[k |-> <<"a">>, v |-> JStr(<<"q", "\"", "r">>)],
                       [k |-> <<"b">>, v |-> JNum(2)]>>),
                 JObj(<<[k |-> <<"b">>, v |-> JNum(2)],
                       [k |-> <<"a">>, v |-> JNum(1)]>>)>>)
    /\ download.written
    /\ Str(download.text) = "a,b\n\"q\"\"r\",2\n1,2"

\* the mappings among the elements of a sequence
Mappings(elements) == SelectSeq(elements, LAMBDA item : item.t = "object")

\* C31: for every result the presenter shows, the table view is offered if
\* and only if the result is a non-empty sequence containing at least one
\* mapping element; a sequence of scalars only has no table view.
C31_TableViewPresence ==
    ~resultsContainer.placeholder =>
        /\ resultsContainer.tableTab = resultsContainer.tableView
        /\ resultsContainer.tableView <=>
              /\ queryResults.t = "array"
              /\ Mappings(queryResults.v) # <<>>

\* the keys of a sequence of mappings in the order they are first seen
ColumnsOf(records) ==
    FirstSeen(Concat([r \in 1..Len(records) |->
                 [m \in 1..Len(records[r].v) |-> records[r].v[m].k]]))

\* C32: for a shown result sequence with at least one keyed mapping
\* element, the table's columns are the keys of all mapping elements in
\* first-seen order, the table has one row per mapping element in sequence
\* order (other elements are skipped), every row has one cell per column,
\* and the cell of a missing key is the null marker; a cell holds the
\* compact text of an object or array and the plain text of a scalar.
C32_TableContent ==
    /\ ~resultsContainer.placeholder
    /\ queryResults.t = "array"
    /\ ColumnsOf(Mappings(queryResults.v)) # <<>>
    => LET table == resultsContainer.table
           records == Mappings(queryResults.v)
           columns == ColumnsOf(records)
       IN  /\ table.message = ""
           /\ table.columns = columns
           /\ Len(table.rows) = Len(records)
           /\ \A r \in 1..Len(records) :
                 /\ Len(table.rows[r]) = Len(columns)
                 /\ \A c \in 1..Len(columns) :
                       LET value == Member(records[r], columns[c])
                       IN  table.rows[r][c] =
                              IF value.t \in {"undefined", "null"}
                              THEN <<NullMarker>>
                              ELSE IF value.t \in {"object", "array"}
                              THEN <<"<span class=\"object-value\">">>
                                   \o stringifyCompact(value)
                                   \o <<"</span>">>
                              ELSE StringOf(value)

\* the result [{"b": "y"}, {"a": 1}] is shown as a table with the columns
\* b, a and the null marker where a key is missing
C32_Witness ==
    /\ queryResults = JArr(<<JObj(<<[k |-> <<"b">>, v |-> JStr(<<"y">>)]>>),
                             JObj(<<[k |-> <<"a">>, v |-> JNum(1)]>>)>>)
    /\ resultsContainer.tableView
    /\ resultsContainer.table =
          [message |-> "",
           columns |-> << <<"b">>, <<"a">> >>,
           rows |-> << << <<"y">>, <<NullMarker>> >>,
                       << <<NullMarker>>, <<"1">> >> >>]

\* the number of dot-separated segments of a path
Segments(path) == 1 + Cardinality({ i \in 1..Len(path) : path[i] = "." })

\* C33: every path getAvailableFields returns for the loaded document, and
\* so every option of the sort field select, has at most 2 dot-separated
\* segments.
C33_FieldDepth ==
    /\ \A i \in 1..Len(getAvailableFields) :
          Segments(getAvailableFields[i]) <= 2
    /\ \A i \in 1..Len(sortFieldSelect.options) :
          Segments(sortFieldSelect.options[i]) <= 2

\* C34: after any sequence of builder events (add, edit and remove of a
\* field row or filter row, sort field and direction change, operation
\* change, document refresh, reset) the text in the query preview is what
\* the generator returns for the current configuration.
C34_PreviewConsistent == queryPreview = generateQuery(config)

\* a filter row was completed under the filter operation and a sort field
\* chosen: the preview shows the filter expression of the configuration
C34_Witness ==
    /\ config.operation = "filter"
    /\ config.filters # <<>>
    /\ config.sortField # <<>>
    /\ queryPreview = generateFilterQuery(config)
    /\ queryPreview # <<"@">>

\* C35: in every reachable builder configuration every entry of
\* selectedFields has a non-empty field and a non-empty alias and every
\* entry of filters has a non-empty field and a non-empty value; the
\* entries are those of the rows with a chosen field (for filters: with a
\* chosen field and a value) in the order of the rows, so that a new or
\* blank row is no part of the configuration.
C35_ConfigWellFormed ==
    LET chosen == SelectSeq(fieldRows, LAMBDA row : row.field # <<>>)
        complete == SelectSeq(filterRows,
                        LAMBDA row : row.field # <<>> /\ row.value # <<>>)
    IN  /\ \A i \in 1..Len(config.selectedFields) :
              /\ config.selectedFields[i].field # <<>>
              /\ config.selectedFields[i].alias # <<>>
        /\ \A i \in 1..Len(config.filters) :
              /\ config.filters[i].field # <<>>
              /\ config.filters[i].value # <<>>
        /\ Len(config.selectedFields) = Len(chosen)
        /\ \A i \in 1..Len(chosen) :
              /\ config.selectedFields[i].field = chosen[i].field
              /\ config.selectedFields[i].alias =
                    IF chosen[i].alias # <<>> THEN chosen[i].alias
                    ELSE chosen[i].field
        /\ Len(config.filters) = Len(complete)
        /\ \A i \in 1..Len(complete) :
              /\ config.filters[i].field = complete[i].field
              /\ config.filters[i].operator = complete[i].operator
              /\ config.filters[i].value = complete[i].value

\* a blank field row stands before a row with a chosen field, and a
\* configuration of one entry
C35_Witness ==
    /\ Len(fieldRows) = 2
    /\ fieldRows[1].field = <<>>
    /\ fieldRows[2].field # <<>>
    /\ Len(config.selectedFields) = 1
    /\ config.selectedFields[1].field = fieldRows[2].field

\* the value is a sequence of mappings that all carry a number at the path
RecordsWithNumberAt(value, path) ==
    /\ value.t = "array"
    /\ value.v # <<>>
    /\ \A i \in 1..Len(value.v) :
          /\ value.v[i].t = "object"
          /\ PathValue(value.v[i], path).t = "number"

\* the positions of the records in the order of their numbers at the path,
\* ascending or descending (the numbers are distinct)
OrderBy(records, path, direction) ==
    CHOOSE order \in [1..Len(records) -> 1..Len(records)] :
        /\ \A i, j \in 1..Len(records) : i # j => order[i] # order[j]
        /\ \A i \in 1..(Len(records) - 1) :
              LET k == PathValue(records[order[i]], path).v
                  l == PathValue(records[order[i + 1]], path).v
              IN  IF direction = "desc" THEN k > l ELSE k < l

\* the record projected to the selected fields under their aliases
ProjectedRecord(record, selectedFields) ==
    JObj([i \in 1..Len(selectedFields) |->
             [k |-> selectedFields[i].alias,
              v |-> PathValue(record, selectedFields[i].field)]])

\* C36: under the complex operation with a projection (of distinct
\* aliases) and a sort field f, applying the generated expression to a
\* sequence of records that all carry a number at f returns the projected
\* records ordered by their original values at f, ascending or descending
\* as configured, whether or not f is projected and under whatever alias.
C36_ComplexSortAfterProjection ==
    [][ /\ BuildQuery
        /\ config.operation = "complex"
        /\ config.selectedFields # <<>>
        /\ \A i, j \in 1..Len(config.selectedFields) :
              i # j => config.selectedFields[i].alias
                       # config.selectedFields[j].alias
        /\ config.sortField # <<>>
        /\ RecordsWithNumberAt(currentJSON, config.sortField)
        => LET order == OrderBy(currentJSON.v, config.sortField,
                                config.sortDirection)
           IN  /\ queryError' = ""
               /\ queryResults' =
                     JArr([i \in 1..Len(currentJSON.v) |->
                              ProjectedRecord(currentJSON.v[order[i]],
                                              config.selectedFields)])
      ]_vars

\* C37: whenever executeQuery has succeeded with the result v, v is shown
\* as the result, getResultsText returns the indent-2 JSON text of v, and
\* the JSON export of v, once Run has stored it, is accepted and writes
\* that text; for every JSON value v, 0, false, the empty string and null
\* included.
C37_ResultAvailable ==
    queryError = "" /\ currentQuery # <<>> =>
        /\ ~resultsContainer.placeholder
        /\ resultsContainer.jsonView = formatJSON(queryResults)
        /\ getResultsText = formatJSON(queryResults)
        /\ currentResults = queryResults =>
              /\ handleExportJSON.written
              /\ handleExportJSON.text = formatJSON(queryResults)

\* a file loadFromFile is to reject: its name does not end in .json or it
\* is larger than 10 MB
RejectedFile(file) ==
    \/ Len(file.name) < 5
    \/ SubSeq(file.name, Len(file.name) - 4, Len(file.name))
          # <<".", "j", "s", "o", "n">>
    \/ file.size > 10485760

\* C38: loadFromFile on a file whose name does not end in .json or whose
\* size is above 10 MB shows an error, never reads the file and leaves the
\* document and the JSON input text unchanged; a .json file of at most
\* 10 MB, exactly 10 MB included, is read, and nothing changes before its
\* text arrives.
C38_FileRejection ==
    [][ \A file \in Files :
          HandleFileUploadOf(file) =>
              IF RejectedFile(file)
              THEN /\ jsonError' \in { "Please select a valid .json file",
                                      "File too large. Maximum size is 10MB" }
                   /\ UNCHANGED <<jsonInput, currentJSON, fileReads>>
              ELSE /\ fileReads' = Append(fileReads, [file |-> file,
                                                      state |-> "pending"])
                   /\ UNCHANGED <<jsonInput, currentJSON, jsonError>>
      ]_vars

\* a file of exactly 10 MB was read and became the document, and a larger
\* file was refused after it: the document is still there
C38_Witness ==
    /\ Len(fileReads) = 1
    /\ fileReads[1].file.size = 10485760
    /\ fileReads[1].state = "done"
    /\ currentJSON = JArr(<<Record(1, 2), Record(2, 1)>>)
    /\ jsonInput = Str(formatJSON(currentJSON))
    /\ jsonError = "File too large. Maximum size is 10MB"

\* C39: when two file loads are in flight together, the document and the
\* JSON input text after both reads have completed are those of the load
\* that was started last, in whatever order the reads complete: a read
\* that completes after a load started later has completed does not
\* replace the document or the input text.
C39_LastLoadWins ==
    [][ \A i \in 1..Len(fileReads) :
          /\ FileReadCompletesAt(i)
          /\ \E j \in (i + 1)..Len(fileReads) : fileReads[j].state = "done"
          => UNCHANGED <<jsonInput, currentJSON>>
      ]_vars

====
